---------------------------- MODULE Spec2Model ----------------------------
(***************************************************************************)
(* A model of mmsd4ofono, the MMS daemon for oFono.                        *)
(*                                                                         *)
(* Spec      the daemon of main.py: oFono presence, modem discovery under  *)
(*           the discovery lock, export_new_modem and the interface        *)
(*           tracker, driven by bus events.                                *)
(* SpecLive  Spec with the event loop running the tasks that can go on.    *)
(* SpecPush  the push agent: ReceiveNotification, the fetch, the retry     *)
(*           queue and export_old_messages after a restart.                *)
(* SpecSend, SpecSendLive   SendMessage and the send_message thread.       *)
(* SpecDelete, SpecRead     the message object: Delete and MarkRead.       *)
(* SpecConn  the calls that read the contexts, and set_props.              *)
(* SpecRetry, SpecRetryLive   retry_failed_requests on a filled queue.     *)
(* SpecIface, SpecModems    the interface tracker, and two modems.         *)
(* SpecCache the client cache of ofono.py.                                 *)
(*                                                                         *)
(* Every handler body between two awaits is one atomic action, since the   *)
(* daemon runs on one asyncio event loop.                                  *)
(***************************************************************************)
EXTENDS Integers, Sequences, FiniteSets, TLC

(***************************************************************************)
(* Bounds of the model.                                                    *)
(***************************************************************************)
MaxTasks == 2      \* find_ofono_modems / export_new_modem invocations in a run
MaxIfTasks == 2    \* add/remove interface tasks pending at one time
MaxEvents == 2     \* bus events the environment produces in a run
MaxContexts == 2   \* contexts the ConnectionManager lists

(***************************************************************************)
(* Strings are sequences of one-character strings wherever the code looks  *)
(* inside them.                                                            *)
(***************************************************************************)
StartsWith(s, p) == Len(s) >= Len(p) /\ SubSeq(s, 1, Len(p)) = p

ModemIds == {"ril_0", "ril_1", "usb_0"}

PathOf(m) ==
    CASE m = "ril_0" -> <<"/", "r", "i", "l", "_", "0">>
      [] m = "ril_1" -> <<"/", "r", "i", "l", "_", "1">>
      [] m = "usb_0" -> <<"/", "u", "s", "b", "_", "0">>

RilPrefix == <<"/", "r", "i", "l", "_">>

\* main.py:130-134, the filter of find_ofono_modems
Eligible(m) == StartsWith(PathOf(m), RilPrefix)

RECURSIVE SelectSeq2(_, _)
SelectSeq2(s, keep) ==
    IF s = <<>> THEN <<>>
    ELSE IF Head(s) \in keep THEN <<Head(s)>> \o SelectSeq2(Tail(s), keep)
         ELSE SelectSeq2(Tail(s), keep)

Range(s) == {s[i] : i \in 1..Len(s)}

\* main.py:130-134
EligibleModems(modems) == SelectSeq2(modems, {m \in ModemIds : Eligible(m)})

SIM == "org.ofono.SimManager"
CM == "org.ofono.ConnectionManager"
IMS == "org.ofono.IpMultimediaSystem"
Ifaces == {SIM, CM, IMS}

\* The values the Interfaces property of a modem takes.
IfaceLists == {<<>>, <<SIM>>, <<SIM, CM>>, <<CM, IMS>>}

\* The Interfaces a modem has when oFono first lists it.
InitialInterfaces(m) ==
    CASE m = "ril_0" -> <<SIM, CM>>
      [] m = "ril_1" -> <<CM, IMS>>
      [] m = "usb_0" -> <<SIM>>

\* ofono.py:48-61: get_interface answers None for an interface the
\* introspection document of the namespace does not describe.
InIntrospection(iface) == iface # IMS

\* ofono.py:48-61 as used by self.ofono_proxy[iface]: the handle of iface on
\* the modem proxy, "None" when the interface cannot be resolved.
ProxyInterface(proxy, iface) == IF InIntrospection(iface) THEN proxy ELSE "None"

VARIABLES
    \* the environment: the bus, oFono and its modems
    ofonoUp,            \* org.ofono has an owner
    envModems,          \* the modems oFono lists, in enumeration order
    envIfaces,          \* per modem, the value of its Interfaces property
    ctxActive,          \* Active of the modem's MMS context
    events,             \* bus events produced so far
    \* check_ofono_presence
    presence,           \* "init", "asked" (awaiting NameHasOwner) or "done"
    hasOwnerReply,      \* the answer in flight to call_name_has_owner
    \* OfonoMMSManagerInterface
    ofono_manager_interface,   \* "unset" (no attribute yet), "None" or "set"
    managerSubs,        \* times on_modem_added/on_modem_removed were registered
    ofono_mms_service_interface,        \* the attribute holds an object (main.py:187)
    ofono_mms_modemmanager_interface,   \* main.py:193
    ofono_push_notification_interface,  \* main.py:199
    modem_added_block,
    ofono_modem_list,
    has_bus,
    ofono_mms_objects,
    ofono_proxy,
    ofono_props,        \* its Interfaces entry
    ofono_interfaces,   \* the dict, as its items in insertion order
    ofono_interface_props,
    modemSubs,          \* per modem, times ofono_changed was registered
    ifaceSubs,          \* per modem and interface, property handlers registered
    ctxSubs,            \* per context, times context_active_changed was registered
    \* the discovery lock of async_locked
    lockHolder, lockQ,
    \* coroutines in flight
    task,               \* find_ofono_modems and export_new_modem invocations, and
                        \* the calls of the objects that wait for oFono
    ifTasks,            \* the tasks create_task made: add_ofono_interface,
                        \* remove_ofono_interface, set_props, context_active_changed
    serviceAdded,       \* ServiceAdded signals emitted by GetServices
    \* history
    queuedExport,       \* a call that queued for the lock behind an exporting pass exported too
    lastDelivered,      \* the list of the latest Interfaces delivery, if still in ofono_props
    rescheduled,        \* tasks scheduled by a delivery repeating the previous list
    changed,            \* the interfaces a property change of which reached a handler
    \* the push notification agent and the message store
    sim_props,          \* the SimManager entry of ofono_interface_props
    cm_tracked,         \* 'org.ofono.ConnectionManager' in ofono_interfaces
    cm_props,           \* 'org.ofono.ConnectionManager' in ofono_interface_props
    notifs,             \* the ReceiveNotification calls, in order of arrival
    retry_queue,
    retry,              \* the task running retry_failed_requests
    files,              \* the storage directory: per uuid, the files of the message
    published,          \* the messages export_mms_message published, with the run
    run,                \* times the daemon was restarted on this directory
    scans,              \* the daemon runs in which export_old_messages was called
    \* the MMS service object
    sends,              \* the SendMessage calls made, each with its send_message thread
    \* the objects on the session bus
    ofono_mms_interfaces,   \* the service objects recorded, next to ofono_mms_objects
    exports,            \* the objects exported: path and recorded modem identity
    messages,           \* messages of the service object, what GetMessages returns
    removed,            \* the MessageRemoved signals emitted, in order
    deleted,            \* the last Delete call on each token: the files whose removal failed
    markedRead,         \* the tokens whose message object has the Status read
    modemGone,          \* the paths modem-removed signals were handled for
    \* CachedClient
    cache,              \* self.cache: per key, the entry or Missing
    acquired,           \* per object path, the get_proxy_object calls made
    lookups,            \* per (path, interface), what its lookups did so far
    \* the contexts of the ConnectionManager and what the daemon took from them
    contexts,           \* what GetContexts answers, in enumeration order
    activated,          \* the context activate_mms_context set Active on, 0 for none
    fetch_proxy,        \* what get_mms_context_info returned last
    mm_props,           \* props of the modem manager settings object
    connCalls,          \* which of the three went through the contexts so far,
                        \* and whether remove_ofono_interface ran
    sim_props_agent,    \* the SimManager entry of the ofono_interface_props
                        \* of the agent
    agent_copied        \* the agent holds a copy of the map of the manager,
                        \* not the map itself

envVars == <<ofonoUp, envModems, envIfaces, ctxActive, events>>
presVars == <<presence, hasOwnerReply>>
objVars == <<ofono_mms_service_interface, ofono_mms_modemmanager_interface,
             ofono_push_notification_interface>>
mgrVars == <<ofono_manager_interface, managerSubs, objVars>>
\* mgrVars without the attribute main.py:187 assigns
mgrRest == <<ofono_manager_interface, managerSubs, ofono_mms_modemmanager_interface,
             ofono_push_notification_interface>>
findVars == <<modem_added_block, ofono_modem_list, has_bus, ofono_mms_objects>>
ifVars == <<ofono_proxy, ofono_props, ofono_interfaces, ofono_interface_props,
            modemSubs, ifaceSubs>>
lockVars == <<lockHolder, lockQ>>
histVars == <<queuedExport, lastDelivered, rescheduled, changed>>
daemonVars == <<envVars, presVars, mgrVars, findVars, ifVars, ctxSubs, lockVars,
                task, ifTasks, serviceAdded, histVars>>

pushVars == <<sim_props, cm_tracked, cm_props, notifs, retry_queue, retry, files,
              published, run, scans>>
sendVars == <<sends>>
svcVars == <<ofono_mms_interfaces, exports, messages, removed, deleted, markedRead,
            modemGone>>
\* What main.py:187-203 write: the service attribute, the records of the
\* objects, the bus, the message list of the service and what was published
serviceVars == <<ofono_mms_service_interface, ofono_mms_objects, ofono_mms_interfaces,
                exports, messages, published>>
\* pushVars and svcVars without them
pushRest == <<sim_props, cm_tracked, cm_props, notifs, retry_queue, retry, files, run, scans>>
svcRest == <<removed, deleted, markedRead, modemGone>>
cacheVars == <<cache, acquired, lookups>>
\* The property map of the agent: the dict of the manager (main.py:199)
\* until main.py:368-369, 382-383 or 415-416 give it a copy
agentVars == <<sim_props_agent, agent_copied>>
connRest == <<contexts, activated, fetch_proxy, connCalls, agentVars>>
connVars == <<connRest, mm_props>>

vars == <<daemonVars, pushVars, sendVars, svcVars, cacheVars, connVars>>

TaskIds == 1..MaxTasks
\* The object paths of the contexts, in the order GetContexts lists them
ContextPaths == 1..MaxContexts

\* Python's None where a text may stand
None == <<"None">>

\* main.py:453-454: the object main() exports at /org/ofono/mms in the step
\* that constructs the manager
ManagerObject == [path |-> <<"/org/ofono/mms">>, bus |-> "session", modem_name |-> None]

\* The modems oFono may already list when the daemon starts.
InitialModemLists == {<<>>, <<"ril_0">>, <<"usb_0", "ril_0">>}

\* waited: the call this one queued behind for the lock, 0 when it did not wait
\* later: the modems the loop of main.py:144 has still to export, each with
\* the Interfaces GetModems answered for it
\* ctx: the path of the context activate_mms_context sets Active on
NoTask == [fn |-> "none", pc |-> "none", org |-> "none", waited |-> 0,
           exported |-> FALSE, modem |-> "none", rem |-> <<>>, cur |-> "none",
           retried |-> FALSE, later |-> <<>>, ctx |-> 0]

\* main.py:41-43: the three attributes are False until export_new_modem
\* gets past main.py:187
NoServiceObjects ==
    /\ ofono_mms_service_interface = FALSE
    /\ ofono_mms_modemmanager_interface = FALSE
    /\ ofono_push_notification_interface = FALSE

\* main.py:187-199 done: the three attributes hold the objects of a modem
ServiceObjectsSet ==
    /\ ofono_mms_service_interface = TRUE
    /\ ofono_mms_modemmanager_interface = TRUE
    /\ ofono_push_notification_interface = TRUE

\* A Python dict as its items in insertion order: d[k] ("absent" for a key
\* the dict lacks), d.update({k: v}), d.pop(k) and the keys
Lookup(d, k) ==
    IF \E i \in 1..Len(d) : d[i].key = k
    THEN d[CHOOSE i \in 1..Len(d) : d[i].key = k].handle
    ELSE "absent"

Update(d, k, v) ==
    IF \E i \in 1..Len(d) : d[i].key = k
    THEN [i \in 1..Len(d) |-> IF d[i].key = k THEN [key |-> k, handle |-> v] ELSE d[i]]
    ELSE Append(d, [key |-> k, handle |-> v])

RECURSIVE Pop(_, _)
Pop(d, k) ==
    IF d = <<>> THEN <<>>
    ELSE IF Head(d).key = k THEN Tail(d) ELSE <<Head(d)>> \o Pop(Tail(d), k)

Keys(d) == [i \in 1..Len(d) |-> d[i].key]

\* ofono_interfaces after export_new_modem of modem m with the Interfaces L,
\* started on the empty dict
TrackedItems(L, m) ==
    [i \in 1..Len(L) |-> [key |-> L[i], handle |-> ProxyInterface(m, L[i])]]

FreeTasks == {t \in TaskIds : task[t].pc = "none"}
NextFree(free) == CHOOSE t \in free : \A u \in free : t <= u

InitDaemon ==
    /\ ofonoUp \in BOOLEAN
    /\ envModems \in (IF ofonoUp THEN InitialModemLists ELSE {<<>>})
    /\ envIfaces = [m \in ModemIds |-> InitialInterfaces(m)]
    /\ ctxActive = TRUE
    /\ events = 0
    /\ presence = "init"
    /\ hasOwnerReply = FALSE
    /\ ofono_manager_interface = "unset"
    /\ managerSubs = 0
    /\ modem_added_block = FALSE
    /\ ofono_modem_list = <<>>
    /\ has_bus = FALSE
    /\ ofono_mms_objects = <<>>
    /\ ofono_proxy = "none"
    /\ ofono_props = <<>>
    /\ ofono_interfaces = <<>>
    /\ ofono_interface_props = [i \in Ifaces |-> "absent"]
    /\ modemSubs = [m \in ModemIds |-> 0]
    /\ ifaceSubs = [m \in ModemIds |-> [i \in Ifaces |-> 0]]
    /\ ctxSubs = [p \in ContextPaths |-> 0]
    /\ lockHolder = 0
    /\ lockQ = <<>>
    /\ task = [t \in TaskIds |-> NoTask]
    /\ ifTasks = <<>>
    /\ serviceAdded = 0
    /\ queuedExport = FALSE
    /\ lastDelivered = <<"none">>
    /\ rescheduled = 0
    /\ changed = {}
    /\ ofono_mms_interfaces = <<>>
    /\ exports = {ManagerObject}
    /\ messages = <<>>
    /\ removed = <<>>
    /\ deleted = {}
    /\ markedRead = {}
    /\ modemGone = {}


(***************************************************************************)
(* The props of the modem manager settings object,                         *)
(* OfonoMMSModemManagerInterface, and its set_props.                       *)
(***************************************************************************)
\* Subscriber numbers
NumA == <<"5", "1">>
NumB == <<"5", "2">>
NumC == <<"5", "3">>

\* str.lower on the letters the context types are written with
LowerChar(c) ==
    CASE c = "M" -> "m"
      [] c = "S" -> "s"
      [] OTHER -> c
lower(text) == [i \in 1..Len(text) |-> LowerChar(text[i])]

\* main.py:275 and 276, ofono_push_notification.py:278-279,
\* ofono_mms_modemmanager.py:51-52
IsMms(ctx) == lower(ctx.Type) = <<"m", "m", "s">>

\* ofono_mms_modemmanager.py:25-33
DefaultProps ==
    [CarrierMMSC |-> "http://mms.invalid", MMS_APN |-> "apn.invalid",
     CarrierMMSProxy |-> <<"N", "U", "L", "L">>, DefaultModemNumber |-> <<"N", "U", "L", "L">>,
     ModemNumber |-> <<>>, AutoProcessOnConnection |-> TRUE, AutoProcessSMSWAP |-> TRUE]

\* ofono_mms_modemmanager.py:49-59: the loop goes through every context
RECURSIVE settings_loop(_, _, _)
settings_loop(ctxs, i, props) ==
    IF i > Len(ctxs) THEN props
    ELSE settings_loop(ctxs, i + 1,
             IF IsMms(ctxs[i])
             THEN [props EXCEPT !.CarrierMMSC = ctxs[i].MessageCenter,
                                !.MMS_APN = ctxs[i].AccessPointName,
                                !.CarrierMMSProxy = ctxs[i].MessageProxy]
             ELSE props)

\* ofono_mms_modemmanager.py:37-45: set_props up to its await, with the
\* SimManager entry sim of the property map
set_props_numbers(props, sim) ==
    LET numbers == IF sim.present /\ sim.hasNumbers THEN sim.numbers ELSE <<>> IN
    IF sim.present /\ numbers # <<>>
    THEN [props EXCEPT !.ModemNumber = numbers[1], !.DefaultModemNumber = numbers[1]]
    ELSE props

\* The SimManager entry a snapshot of the property map stands for: the
\* SimManager of a modem answers GetProperties with one subscriber number,
\* and the properties that change later are other ones, so a snapshot that
\* started empty has no SubscriberNumbers
SimEntry(snapshot) ==
    CASE snapshot = "absent" ->
             [present |-> FALSE, hasNumbers |-> FALSE, numbers |-> <<>>]
      [] snapshot \in {"fetched", "updated"} ->
             [present |-> TRUE, hasNumbers |-> TRUE, numbers |-> <<NumA>>]
      [] OTHER -> [present |-> TRUE, hasNumbers |-> FALSE, numbers |-> <<>>]

\* main.py:393-397 and 411-413: where the settings object is set, set_props
\* runs on the property map iprops: it takes the numbers and, with a
\* ConnectionManager entry in the map, stops at call_get_contexts, on the
\* handle ofono_interfaces holds (KeyError or AttributeError without one)
SetPropsStep(runs, ifs, iprops, props) ==
    IF ~runs THEN [pc |-> "returned", mm |-> props]
    ELSE LET numbered == set_props_numbers(props, SimEntry(iprops[SIM])) IN
         IF iprops[CM] = "absent" THEN [pc |-> "returned", mm |-> numbered]
         ELSE IF Lookup(ifs, CM) \in {"absent", "None"}
         THEN [pc |-> "raised", mm |-> numbered]
         ELSE [pc |-> "get_contexts", mm |-> numbered]


(***************************************************************************)
(* The push notification agent, OfonoPushNotification, with the publishing *)
(* callback export_mms_message of main.py. Text the code looks inside is a *)
(* sequence of one-character strings.                                      *)
(***************************************************************************)
MaxNotifs == 1     \* push notifications received in a run
MaxFails == 2      \* failed fetches of one notification in one daemon process
MaxRestarts == 1   \* restarts of the daemon on the same storage directory
MaxQueued == 2     \* notifications waiting in the retry queue at the start

Plmn == <<"/", "T", "Y", "P", "E", "=", "P", "L", "M", "N">>

\* The index of the first c in s, 0 when there is none
RECURSIVE IndexOf(_, _, _)
IndexOf(s, c, i) ==
    IF i > Len(s) THEN 0 ELSE IF s[i] = c THEN i ELSE IndexOf(s, c, i + 1)

\* s.split(c)[0]
SplitFirst(s, c) ==
    LET i == IndexOf(s, c, 1) IN IF i = 0 THEN s ELSE SubSeq(s, 1, i - 1)

\* s.split(c)[1]; the line always holds a c where the code uses it
SplitSecond(s, c) ==
    LET i == IndexOf(s, c, 1)
        rest == SubSeq(s, i + 1, Len(s))
    IN  SplitFirst(rest, c)

Whitespace == {" ", "\n", "\r", "\t"}

\* s.strip()
RECURSIVE LStrip(_)
LStrip(s) == IF s # <<>> /\ Head(s) \in Whitespace THEN LStrip(Tail(s)) ELSE s

RECURSIVE RStrip(_)
RStrip(s) ==
    IF s # <<>> /\ s[Len(s)] \in Whitespace THEN RStrip(SubSeq(s, 1, Len(s) - 1)) ELSE s

Strip(s) == LStrip(RStrip(s))

\* ofono_push_notification.py:83-85: header texts lose their characters
\* outside \x20-\x7E and their double quotes
Unprintable == {"\n", "\r", "\t"}
Sanitized(c) == c \notin Unprintable /\ c # "\""
Sanitize(v) == IF v = None THEN None ELSE SelectSeq(v, Sanitized)

\* os.path.splitext(name)[0]: the name without its last extension
RECURSIVE LastDot(_, _)
LastDot(s, i) == IF i = 0 THEN 0 ELSE IF s[i] = "." THEN i ELSE LastDot(s, i - 1)

RECURSIVE LeadingDots(_)
LeadingDots(s) == IF s # <<>> /\ Head(s) = "." THEN 1 + LeadingDots(Tail(s)) ELSE 0

SplitExt(s) ==
    LET d == LastDot(s, Len(s)) IN
    IF d > LeadingDots(s) + 1 THEN SubSeq(s, 1, d - 1) ELSE s

\* Python's list[i]: negative indexes count from the end; "ok" tells whether
\* the index is in range (IndexError otherwise)
PyIndexOk(l, i) == i < Len(l) /\ i >= 0 - Len(l)
PyIndex(l, i) == IF i >= 0 THEN l[i + 1] ELSE l[Len(l) + i + 1]

(***************************************************************************)
(* Decoded MMS bodies. The codec (mmsdecoder.message) hands the agent a    *)
(* dictionary of headers and a list of content-typed parts.                *)
(***************************************************************************)
SmilType == "application/smil"
TextType == "text/plain"
ImageType == "image/jpeg"

\* 'application/smil' in part.content_type
IsSmil(part) == part.ctype = SmilType

\* The elements of a SMIL document: tag, and src attribute if it has one.
\* A line break between elements is an element of tag "\n".
Elem(tag, src) == [tag |-> tag, hasSrc |-> TRUE, src |-> src]
Bare(tag) == [tag |-> tag, hasSrc |-> FALSE, src |-> <<>>]
NL == Bare("\n")

FileA == <<"a", ".", "j">>
FileB == <<"b", ".", "t">>

Smil2 == <<Bare("smil"), NL, Elem("img", FileA), NL, Elem("text", FileB)>>
Smil1 == <<Bare("smil"), Elem("img", FileA)>>
Smil0 == <<Bare("smil"), NL, Bare("body")>>
SmilBlank == <<NL>>

SmilPart(doc) == [ctype |-> SmilType, smil |-> doc, len |-> Len(doc)]
DataPart(t, n) == [ctype |-> t, smil |-> <<>>, len |-> n]

AddrOf(n) == n \o Plmn

MkBody(to, from, dr, parts) == [to |-> to, from |-> from, dr |-> dr, parts |-> parts]

\* The bodies the MMSC serves
Bodies == {
    \* SMIL first, two media parts, addressed to the own number
    MkBody(AddrOf(NumA), AddrOf(NumC), "false",
           <<SmilPart(Smil2), DataPart(ImageType, 3), DataPart(TextType, 2)>>),
    \* the same sent to somebody else's number (a group message)
    MkBody(AddrOf(NumB), AddrOf(NumC), "true",
           <<SmilPart(Smil2), DataPart(ImageType, 3), DataPart(TextType, 2)>>),
    \* no Delivery-Report header
    MkBody(AddrOf(NumA), AddrOf(NumC), "None",
           <<SmilPart(Smil1), DataPart(ImageType, 3)>>),
    \* the SMIL part is the only part
    MkBody(AddrOf(NumA), AddrOf(NumC), "false", <<SmilPart(Smil1)>>),
    \* the SMIL part is not the first part
    MkBody(AddrOf(NumA), AddrOf(NumC), "false",
           <<DataPart(TextType, 2), SmilPart(Smil1)>>),
    \* no SMIL part
    MkBody(AddrOf(NumA), AddrOf(NumC), "false", <<DataPart(TextType, 2)>>),
    \* fewer src references than media parts
    MkBody(AddrOf(NumA), AddrOf(NumC), "false",
           <<SmilPart(Smil1), DataPart(ImageType, 3), DataPart(TextType, 2)>>),
    \* a SMIL document without src references
    MkBody(AddrOf(NumA), AddrOf(NumC), "false",
           <<SmilPart(Smil0), DataPart(TextType, 2)>>),
    \* a blank SMIL document
    MkBody(AddrOf(NumA), AddrOf(NumC), "false", <<SmilPart(SmilBlank)>>),
    \* no To header, no From header
    MkBody(None, None, "false", <<SmilPart(Smil1), DataPart(ImageType, 3)>>)
}

NormalBody == MkBody(AddrOf(NumA), AddrOf(NumC), "false",
                     <<SmilPart(Smil2), DataPart(ImageType, 3), DataPart(TextType, 2)>>)

SentTime == <<"2", "4", "T", "1", "0">>

\* A push notification as oFono delivers it: its headers, the SentTime of
\* info, and the body its Content-Location leads to
MkNotif(loc, from, sent, body) == [loc |-> loc, from |-> from, sent |-> sent, body |-> body]

Notifications ==
    {MkNotif(TRUE, AddrOf(NumC), SentTime, b) : b \in Bodies}
    \cup {MkNotif(FALSE, AddrOf(NumC), SentTime, NormalBody),
          MkNotif(TRUE, None, SentTime, NormalBody),
          MkNotif(TRUE, <<"\"">> \o NumC \o <<"\"">> \o Plmn, SentTime, NormalBody),
          MkNotif(TRUE, AddrOf(NumC), None, NormalBody)}

\* What no SMIL part leaves in status_data['smil_data']
NoSmil == <<Bare("None")>>

Received == <<"r", "e", "c", "e", "i", "v", "e", "d">>
Sent == <<"s", "e", "n", "t">>
StateKey == <<"s", "t", "a", "t", "e", "=">>
ReadKey == <<"r", "e", "a", "d", "=">>
FalseText == <<"f", "a", "l", "s", "e">>
IdKey == <<"i", "d", "=">>

\* The Transaction-Id of the notifications; the bodies carry no id of their own
TransactionId == <<"T", "1">>
DateKey == <<"d", "a", "t", "e", "=">>

\* The SubscriberNumbers the SimManager entry of ofono_interface_props holds:
\* no SimManager entry, an entry without the key, an empty list, one number
SimConfigs == {
    [present |-> FALSE, hasNumbers |-> FALSE, numbers |-> <<>>],
    [present |-> TRUE, hasNumbers |-> FALSE, numbers |-> <<>>],
    [present |-> TRUE, hasNumbers |-> TRUE, numbers |-> <<>>],
    [present |-> TRUE, hasNumbers |-> TRUE, numbers |-> <<NumA>>]}

\* ofono_push_notification.py:283-290
HasSrc(e) == e.hasSrc
extract_smil_src(xml) ==
    LET sources == SelectSeq(xml, HasSrc)
        src_list == [i \in 1..Len(sources) |-> SplitExt(sources[i].src)]
    IN  IF src_list # <<>> THEN [isNone |-> FALSE, list |-> src_list]
        ELSE [isNone |-> TRUE, list |-> <<>>]

\* part.data.decode('utf-8').replace("\n", "").replace("\r", "")
NotLineBreak(e) == e.tag \notin {"\n", "\r"}
SmilText(part) == SelectSeq(part.smil, NotLineBreak)

\* main.py:236
ObjectPath(uuid) == <<"/org/ofono/mms/" \o ToString(uuid)>>

\* main.py:217-240: the property bag export_mms_message publishes at
\* /org/ofono/mms/<uuid>; modem_number is the ModemNumber the props of the
\* settings object hold. Variant('b', None) raises (main.py:227), so for a
\* delivery report that is None the call ends before anything is exported.
\* The function has no return statement, so what it hands back is None.
export_mms_message(uuid, status, date, sender, delivery_report, recipients, smil, attachments, modem_number) ==
    [raised |-> delivery_report = "None",
     path |-> ObjectPath(uuid),
     Status |-> status,
     Date |-> date,
     Sender |-> sender,
     DeliveryReport |-> delivery_report,
     ModemNumber |-> modem_number,
     Recipients |-> IF status = Received /\ recipients = <<>>
                    THEN <<modem_number>> ELSE recipients,
     Smil |-> smil,
     Attachments |-> attachments,
     ret |-> None]

\* main.py:236-239: the objects on the bus and the messages of the service
\* object once export_mms_message has published pubs
Exported(bus, pubs) ==
    bus \cup {[path |-> pubs[i].path, bus |-> "session", modem_name |-> None] :
                 i \in 1..Len(pubs)}
Listed(msgs, pubs) == msgs \o pubs

\* ofono_push_notification.py:239-254, the loop over the data parts. st.kind
\* tells what smil_src holds: the integer it starts as, None, or a list.
\* Subscripting the integer or None raises TypeError, an index out of range
\* raises IndexError; the attachment file of the part is written before.
RECURSIVE ScanParts(_, _, _, _)
ScanParts(parts, index, uuid, st) ==
    IF index >= Len(parts) \/ st.err THEN st
    ELSE LET part == parts[index + 1]
             wr == [st EXCEPT !.written = @ + 1]
         IN  IF IsSmil(part)
             THEN LET r == extract_smil_src(SmilText(part)) IN
                  ScanParts(parts, index + 1, uuid,
                            [wr EXCEPT !.bound = TRUE, !.smil = SmilText(part),
                                       !.kind = IF r.isNone THEN "None" ELSE "list",
                                       !.src = r.list])
             ELSE IF st.kind # "list" \/ ~PyIndexOk(st.src, index - 1)
                  THEN [wr EXCEPT !.err = TRUE]
                  ELSE ScanParts(parts, index + 1, uuid,
                           [wr EXCEPT !.atts = Append(@,
                               [cid |-> <<"<">> \o PyIndex(st.src, index - 1) \o <<">">>,
                                ctype |-> part.ctype, uuid |-> uuid, index |-> index,
                                len |-> part.len])])

ScanStart == [kind |-> "int", src |-> <<>>, bound |-> FALSE, smil |-> NoSmil,
              atts |-> <<>>, written |-> 0, err |-> FALSE]

\* ofono_push_notification.py:256-269: the recipients of a received message
Recipients(sim, to_number, sender_number) ==
    IF sim.present /\ sim.hasNumbers /\ sim.numbers # <<>>
       /\ sim.numbers[1] # to_number
    THEN <<sim.numbers[1], to_number, sender_number>>
    ELSE <<>>

\* ofono_push_notification.py:209-271. The result tells the files written,
\* the message published if one was, and whether the call raised.
process_mms_content(uuid, body, sender, sent, sim, modem_number) ==
    LET sent_time == IF sent = None THEN <<>> ELSE sent
        sc == ScanParts(body.parts, 0, uuid, ScanStart)
        file == [kind |-> "received", pdu |-> TRUE, body |-> body, headers |-> TRUE,
                 readLine |-> ReadKey \o FalseText,
                 stateLine |-> StateKey \o Received, idLine |-> IdKey \o TransactionId,
                 dateLine |-> DateKey \o sent_time, nAttach |-> sc.written]
        needsTo == sim.present /\ sim.hasNumbers /\ sim.numbers # <<>>
    IN  IF sc.err \/ ~sc.bound
        THEN [file |-> file, pubs |-> <<>>, raised |-> TRUE]
        ELSE IF sc.smil = <<>>
        THEN [file |-> file, pubs |-> <<>>, raised |-> FALSE]
        ELSE IF sender = None \/ (needsTo /\ body.to = None)
        THEN [file |-> file, pubs |-> <<>>, raised |-> TRUE]
        ELSE LET sender_number == SplitFirst(sender, "/")
                 to_number == IF needsTo THEN SplitFirst(body.to, "/") ELSE <<>>
                 msg == export_mms_message(uuid, Received, sent_time, sender_number,
                            body.dr, Recipients(sim, to_number, sender_number),
                            sc.smil, sc.atts, modem_number)
             IN  [file |-> file,
                  pubs |-> IF msg.raised THEN <<>> ELSE <<msg>>,
                  raised |-> msg.raised]

\* A scan that takes a status file without headers or with fewer than two
\* attachment files for an error
old_entry_strict(uuid, f) ==
    IF f.kind = "none"
    THEN [skip |-> TRUE, raised |-> FALSE, pubs |-> <<>>]
    ELSE IF ~(f.headers /\ f.nAttach >= 2)
    THEN [skip |-> FALSE, raised |-> TRUE, pubs |-> <<>>]
    ELSE [skip |-> FALSE, raised |-> FALSE,
          pubs |-> <<[uuid |-> uuid, state |-> Strip(SplitSecond(f.stateLine, "=")),
                      date |-> Strip(SplitSecond(f.dateLine, "=")),
                      sender |-> <<>>, dr |-> "false", smil |-> NoSmil, atts |-> <<>>]>>]

\* ofono_push_notification.py:116-177 for one token: the entry
\* export_old_messages builds for its status file, if it is complete. With
\* the payload file gone (ofono_push_notification.py:148) the entry keeps the
\* None it started with for sender, delivery report and SMIL
old_entry(uuid, f) ==
    IF ~(f.kind # "none" /\ f.headers /\ f.nAttach >= 2)
    THEN [skip |-> TRUE, raised |-> FALSE, pubs |-> <<>>]
    ELSE LET state == Strip(SplitSecond(f.stateLine, "="))
             date == Strip(SplitSecond(f.dateLine, "="))
         IN  IF ~f.pdu
             THEN [skip |-> FALSE, raised |-> FALSE,
                   pubs |-> <<[uuid |-> uuid, state |-> state, date |-> date,
                               sender |-> None, dr |-> "None", smil |-> NoSmil,
                               atts |-> <<>>]>>]
             ELSE LET sc == ScanParts(f.body.parts, 0, uuid,
                                      [ScanStart EXCEPT !.bound = TRUE])
                  IN  IF f.body.dr = "None" \/ f.body.from = None \/ sc.err
                      THEN [skip |-> FALSE, raised |-> TRUE, pubs |-> <<>>]
                      ELSE [skip |-> FALSE, raised |-> FALSE,
                            pubs |-> <<[uuid |-> uuid, state |-> state, date |-> date,
                                        sender |-> IF f.body.from # <<>>
                                                   THEN SplitFirst(f.body.from, "/")
                                                   ELSE <<>>,
                                        dr |-> IF f.body.dr = "true" THEN "true"
                                               ELSE "false",
                                        smil |-> sc.smil, atts |-> sc.atts]>>]

RECURSIVE old_entries(_, _)
old_entries(fs, order) ==
    IF order = <<>> THEN <<>>
    ELSE old_entry(Head(order), fs[Head(order)]).pubs \o old_entries(fs, Tail(order))

\* ofono_push_notification.py:179-181: the loop publishes the entries in
\* turn; a call of export_mms_message that raises ends it
RECURSIVE until_raised(_)
until_raised(msgs) ==
    IF msgs = <<>> THEN <<>>
    ELSE IF Head(msgs).raised THEN <<>>
    ELSE <<Head(msgs)>> \o until_raised(Tail(msgs))

\* ofono_push_notification.py:113-181: the messages export_old_messages
\* publishes when listdir yields the status files in the given order. An
\* exception while an entry is built ends the call before anything is
\* published; an exception of export_mms_message ends it after the entries
\* before that one were published.
export_old_messages(fs, order, modem_number) ==
    IF \E u \in 1..Len(fs) : old_entry(u, fs[u]).raised
    THEN <<>>
    ELSE LET es == old_entries(fs, order) IN
         until_raised([i \in 1..Len(es) |->
             export_mms_message(es[i].uuid, es[i].state, es[i].date, es[i].sender,
                                es[i].dr, <<>>, es[i].smil, es[i].atts, modem_number)])

Tagged(pubs, n, r) == [i \in 1..Len(pubs) |-> [msg |-> pubs[i], notif |-> n, run |-> r]]

Orders(n) == {o \in [1..n -> 1..n] : \A i, j \in 1..n : o[i] = o[j] => i = j}

\* The orders in which listdir yields the tokens oldest first or newest first
ScanOrders(n) == {[i \in 1..n |-> i], [i \in 1..n |-> n + 1 - i]}

(***************************************************************************)
(* The interface tracker.                                                  *)
(***************************************************************************)
\* main.py:300-304 with main.py:336-397: init_ofono_interfaces awaits
\* add_ofono_interface for each name in turn; add_ofono_interface records the
\* handle and, for a handle that is None, skips the properties
\* (AttributeError, main.py:390) and goes on to set_props (main.py:393-397).
\* The run stops at the first call it awaits: call_get_properties of an
\* interface (pc addprops) or call_get_contexts of set_props (pc
\* get_contexts); at pc end every interface is done. has_mm tells whether
\* the attribute ofono_mms_modemmanager_interface is set.
RECURSIVE init_ofono_interfaces(_, _, _, _, _, _)
init_ofono_interfaces(ifs, proxy, rem, iprops, props, has_mm) ==
    IF rem = <<>>
    THEN [ifs |-> ifs, rem |-> <<>>, cur |-> "none", pc |-> "end", mm |-> props]
    ELSE LET h == Head(rem)
             ifs2 == Update(ifs, h, ProxyInterface(proxy, h))
             sp == SetPropsStep(has_mm, ifs2, iprops, props)
         IN  IF Lookup(ifs2, h) # "None"
             THEN [ifs |-> ifs2, rem |-> Tail(rem), cur |-> h, pc |-> "addprops",
                   mm |-> props]
             ELSE IF sp.pc = "returned"
             THEN init_ofono_interfaces(ifs2, proxy, Tail(rem), iprops, sp.mm, has_mm)
             ELSE [ifs |-> ifs2, rem |-> Tail(rem), cur |-> "none", pc |-> sp.pc,
                   mm |-> sp.mm]

\* The end of a find_ofono_modems or export_new_modem invocation: the lock of
\* async_locked is released, and GetServices (main.py:58-66) goes on to emit
\* ServiceAdded whether the call returned or raised.
Ends(t, how, tk) ==
    /\ task' = [tk EXCEPT ![t] = [NoTask EXCEPT !.pc = how,
                                                !.exported = tk[t].exported]]
    /\ lockHolder' = IF tk[t].fn = "find" THEN 0 ELSE lockHolder
    /\ serviceAdded' = IF tk[t].org = "GetServices" THEN serviceAdded + 1
                       ELSE serviceAdded

\* The service object of main.py:187 as a constructor that took the call
\* and the path of the modem would leave it
ModemServiceObject(name) ==
    [path |-> <<"/org/ofono/mms/modemmanager">>, bus |-> "session", modem_name |-> name]

\* A constructor that takes the call: main.py:187-191 export the service
\* object of the modem and record it before the invocation ends
export_services_recorded(t, tk) ==
    /\ Ends(t, "raised", tk)
    /\ ofono_mms_service_interface' = TRUE
    /\ exports' = exports \cup {ModemServiceObject(PathOf(tk[t].modem))}
    /\ ofono_mms_interfaces' = Append(ofono_mms_interfaces,
                                      ModemServiceObject(PathOf(tk[t].modem)))
    /\ ofono_mms_objects' = Append(ofono_mms_objects, <<"/org/ofono/mms/modemmanager">>)
    /\ UNCHANGED <<messages, published>>

\* An export that gets as far as main.py:197: the path of the settings
\* object, which is the path of the Manager, is recorded next to the path of
\* the service object
export_services_settings(t, tk) ==
    /\ Ends(t, "raised", tk)
    /\ ofono_mms_objects' = ofono_mms_objects \o <<<<"/org/ofono/mms/modemmanager">>,
                                                   <<"/org/ofono/mms">>>>
    /\ UNCHANGED <<ofono_mms_service_interface, ofono_mms_interfaces, exports,
                   messages, published>>

\* An export that gets as far as RegisterAgent and stays in the loop of
\* ofono_push_notification.py:54-60
export_services_registering(t, tk) ==
    /\ task' = [tk EXCEPT ![t] = [@ EXCEPT !.pc = "register"]]
    /\ lockHolder' = IF tk[t].fn = "find" THEN t ELSE lockHolder
    /\ serviceAdded' = serviceAdded
    /\ UNCHANGED serviceVars

\* An export that gets as far as main.py:203 every time, on a bus that takes
\* an object at a path that holds one
export_services_republishing(t, tk) ==
    /\ Ends(t, "raised", tk)
    /\ \E order \in Orders(Len(files)) :
          published' = published \o
              Tagged(export_old_messages(files, order, mm_props.ModemNumber), 0, run)
    /\ UNCHANGED <<ofono_mms_service_interface, ofono_mms_objects,
                   ofono_mms_interfaces, exports, messages>>

\* main.py:187-191: the constructor call of main.py:187 gives
\* OfonoMMSServiceInterface six arguments where ofono_mms_service.py:25
\* requires eight. Python raises TypeError: no service object is made,
\* exported or recorded, and the rest of export_new_modem (main.py:188-215)
\* never runs. The except clause of main.py:151 catches DBusError only, so
\* inside find_ofono_modems the pass ends there too.
export_services(t, tk) ==
    /\ Ends(t, "raised", tk)
    /\ UNCHANGED serviceVars

\* The task t goes on as the run r of init_ofono_interfaces says; when the
\* interfaces are done main.py:187 is next.
ExportRuns(t, tk, r) ==
    /\ ofono_interfaces' = r.ifs
    /\ mm_props' = r.mm
    /\ IF r.pc = "end"
       THEN export_services(t, tk)
       ELSE /\ UNCHANGED serviceVars
            /\ IF r.pc = "raised"
               THEN Ends(t, "raised", tk)
               ELSE /\ task' = [tk EXCEPT ![t] = [@ EXCEPT !.pc = r.pc,
                                                           !.rem = r.rem, !.cur = r.cur]]
                    /\ lockHolder' = IF tk[t].fn = "find" THEN t ELSE lockHolder
                    /\ serviceAdded' = serviceAdded

\* main.py:185-187: export_new_modem after some add_ofono_interface returned
ExportContinues(t, tk, proxy, ifs, rem, iprops, props) ==
    ExportRuns(t, tk, init_ofono_interfaces(ifs, proxy, rem, iprops, props,
                                            ofono_mms_modemmanager_interface))

\* main.py:393-397 inside export_new_modem: the add_ofono_interface of the
\* task is past its handler registration
ExportSetsProps(t, tk, ifs, rem, iprops, props) ==
    LET sp == SetPropsStep(ofono_mms_modemmanager_interface, ifs, iprops, props) IN
    IF sp.pc = "returned"
    THEN ExportContinues(t, tk, ofono_proxy, ifs, rem, iprops, sp.mm)
    ELSE ExportRuns(t, tk, [ifs |-> ifs, rem |-> rem, cur |-> "none",
                            pc |-> sp.pc, mm |-> sp.mm])

\* main.py:179-185: the start of export_new_modem(path, mprops)
export_new_modem(t, tk, m, L) ==
    /\ ofono_props' = L
    /\ ofono_proxy' = m
    /\ modemSubs' = [modemSubs EXCEPT ![m] = @ + 1]
    /\ lastDelivered' = <<"none">>
    /\ queuedExport' = (queuedExport \/ (tk[t].waited # 0 /\ tk[tk[t].waited].exported))
    /\ ExportContinues(t, [tk EXCEPT ![t] = [@ EXCEPT !.exported = TRUE, !.modem = m]],
                       m, ofono_interfaces, L, ofono_interface_props, mm_props)

\* MessageBus.unexport as the code calls it. Given an object path it takes
\* the object at that path off the bus; given anything else (main.py:292
\* hands it the interface object) it raises and the bus is as before.
\* its first argument is the bus whose unexport is called: the objects on
\* the other bus stay.
APath(p) == [isPath |-> TRUE, path |-> p]
AnObject(x) == [isPath |-> FALSE, path |-> x.path]
unexport(bus, arg) ==
    IF arg.isPath
    THEN [raised |-> FALSE,
          bus |-> {x \in bus : x.bus # "session" \/ x.path # arg.path}]
    ELSE [raised |-> TRUE, bus |-> bus]

\* main.py:106-107
RECURSIVE unexport_all(_, _)
unexport_all(bus, objects) ==
    IF objects = <<>> THEN bus
    ELSE unexport_all(unexport(bus, APath(Head(objects))).bus, Tail(objects))

\* main.py:101-125: find_ofono_modems from the moment it holds the lock to
\* its first await
find_ofono_modems_body(t, tk) ==
    /\ exports' = unexport_all(exports, ofono_mms_objects)
    /\ ofono_mms_objects' = <<>>
    /\ ofono_mms_interfaces' = <<>>
    /\ IF ofono_manager_interface = "unset"
       THEN /\ Ends(t, "raised", tk)
            /\ UNCHANGED <<modem_added_block, ofono_modem_list>>
       ELSE IF ofono_manager_interface = "None"
       THEN /\ Ends(t, "done", tk)
            /\ UNCHANGED <<modem_added_block, ofono_modem_list>>
       ELSE /\ ofono_modem_list' = <<>>
            /\ modem_added_block' = TRUE
            /\ task' = [tk EXCEPT ![t] = [@ EXCEPT !.pc = "modems"]]
            /\ lockHolder' = t
            /\ serviceAdded' = serviceAdded

\* A decorator that lets every call in at once
find_ofono_modems_unlocked(t, tk) ==
    /\ find_ofono_modems_body(t, tk)
    /\ lockQ' = lockQ

\* async_locked: the call takes the lock when it is free and nobody waits for
\* it, and queues behind the earlier callers otherwise.
find_ofono_modems(t, tk) ==
    IF lockHolder = 0 /\ lockQ = <<>>
    THEN /\ find_ofono_modems_body(t, tk)
         /\ lockQ' = lockQ
    ELSE /\ task' = [tk EXCEPT ![t] = [@ EXCEPT !.pc = "lockq",
                  !.waited = IF lockQ = <<>> THEN lockHolder ELSE lockQ[Len(lockQ)]]]
         /\ lockQ' = Append(lockQ, t)
         /\ UNCHANGED <<lockHolder, serviceAdded, modem_added_block,
                        ofono_modem_list, ofono_mms_objects, ofono_mms_interfaces,
                        exports>>

\* The task loop.create_task(self.find_ofono_modems()) made starts running.
FindStart(t) ==
    /\ task[t].fn = "find" /\ task[t].pc = "ready"
    /\ find_ofono_modems(t, task)
    /\ UNCHANGED <<envVars, presVars, mgrVars, has_bus, ifVars, ctxSubs, ifTasks, histVars>>
    /\ UNCHANGED <<cacheVars, connVars, pushVars, sendVars, messages, removed, deleted, markedRead, modemGone>>

\* The lock passes to the caller that waited longest.
FindGranted(t) ==
    /\ task[t].pc = "lockq" /\ lockHolder = 0
    /\ lockQ # <<>> /\ Head(lockQ) = t
    /\ lockQ' = Tail(lockQ)
    /\ find_ofono_modems_body(t, task)
    /\ UNCHANGED <<envVars, presVars, mgrVars, has_bus, ifVars, ctxSubs, ifTasks, histVars>>
    /\ UNCHANGED <<cacheVars, connVars, pushVars, sendVars, messages, removed, deleted, markedRead, modemGone>>

\* main.py:119-123 and 140-142: call_get_modems failed with a DBusError
FindModemsError(t) ==
    /\ task[t].pc = "modems" /\ ~ofonoUp
    /\ IF ofono_manager_interface = "None"
       THEN Ends(t, "done", task)
       ELSE UNCHANGED <<task, lockHolder, serviceAdded>>
    /\ ofono_modem_list' = <<>>
    /\ UNCHANGED <<envVars, presVars, mgrVars, modem_added_block, has_bus,
                   ofono_mms_objects, ifVars, ctxSubs, lockQ, ifTasks, histVars>>
    /\ UNCHANGED <<cacheVars, connVars, pushVars, sendVars, svcVars>>

\* main.py:125-139: call_get_modems answered with no eligible modem
FindModemsNone(t) ==
    /\ task[t].pc = "modems" /\ ofonoUp
    /\ EligibleModems(envModems) = <<>>
    /\ ofono_modem_list' = <<>>
    /\ task' = [task EXCEPT ![t] = [@ EXCEPT !.pc = "sleep"]]
    /\ UNCHANGED <<envVars, presVars, mgrVars, modem_added_block, has_bus,
                   ofono_mms_objects, ifVars, ctxSubs, lockVars, ifTasks,
                   serviceAdded, histVars>>
    /\ UNCHANGED <<cacheVars, connVars, pushVars, sendVars, svcVars>>

\* main.py:125-150: call_get_modems answered with eligible modems; the loop
\* of main.py:144 exports the first one
FindModemsFound(t) ==
    /\ task[t].pc = "modems" /\ ofonoUp
    /\ EligibleModems(envModems) # <<>>
    /\ ofono_modem_list' = EligibleModems(envModems)
    /\ LET found == EligibleModems(envModems)
           rest == [i \in 1..(Len(found) - 1) |->
                       [modem |-> found[i + 1], Interfaces |-> envIfaces[found[i + 1]]]]
       IN  export_new_modem(t, [task EXCEPT ![t] = [@ EXCEPT !.later = rest]],
                            Head(found), envIfaces[Head(found)])
    /\ UNCHANGED <<envVars, presVars, mgrRest, modem_added_block, has_bus,
                   ofono_interface_props, ifaceSubs, ctxSubs,
                   lockQ, ifTasks, rescheduled, changed>>
    /\ UNCHANGED <<cacheVars, connRest, pushRest, sendVars, svcRest>>

\* A loop that asks for the modems once and ends after the sleep
FindSleepDone_give_up(t) ==
    /\ task[t].pc = "sleep"
    /\ Ends(t, "done", task)
    /\ UNCHANGED <<envVars, presVars, mgrVars, findVars, ifVars, ctxSubs, lockQ,
                   ifTasks, histVars>>
    /\ UNCHANGED <<cacheVars, connVars, pushVars, sendVars, svcVars>>

\* main.py:138-139 then 119-125: the sleep of the retry loop is over; the
\* task remembers that it went round the loop
FindSleepDone(t) ==
    /\ task[t].pc = "sleep"
    /\ IF ofono_manager_interface = "None"
       THEN Ends(t, "done", task)
       ELSE /\ task' = [task EXCEPT ![t] = [@ EXCEPT !.pc = "modems", !.retried = TRUE]]
            /\ UNCHANGED <<lockHolder, serviceAdded>>
    /\ UNCHANGED <<envVars, presVars, mgrVars, findVars, ifVars, ctxSubs, lockQ,
                   ifTasks, histVars>>
    /\ UNCHANGED <<cacheVars, connVars, pushVars, sendVars, svcVars>>

\* A call to oFono is answered while org.ofono has an owner and fails with a
\* DBusError when it has none.
Answered == ofonoUp

\* main.py:360-397 inside export_new_modem: call_get_properties of the
\* interface being added answered (ok) or failed with a DBusError. The
\* handler is registered on the handle ofono_interfaces holds now; when a
\* remove task took the entry meanwhile the lookup raises KeyError. Then
\* set_props runs where the settings object is set.
ExportPropsReply(t, ok) ==
    /\ task[t].pc = "addprops" /\ ok = Answered
    /\ LET c == task[t].cur
           iprops == [ofono_interface_props EXCEPT
                         ![c] = IF ok THEN "fetched" ELSE "empty"]
       IN
       /\ ofono_interface_props' = iprops
       /\ IF Lookup(ofono_interfaces, c) = "absent"
          THEN /\ Ends(t, "raised", task)
               /\ UNCHANGED <<ofono_interfaces, ifaceSubs, mm_props, serviceVars>>
          ELSE /\ ifaceSubs' = [ifaceSubs EXCEPT ![Lookup(ofono_interfaces, c)][c] = @ + 1]
               /\ ExportSetsProps(t, task, ofono_interfaces, task[t].rem, iprops, mm_props)
    /\ UNCHANGED <<envVars, presVars, mgrRest, modem_added_block, ofono_modem_list,
                   has_bus, ofono_proxy, ofono_props, modemSubs, ctxSubs, lockQ,
                   ifTasks, histVars>>
    /\ UNCHANGED <<cacheVars, connRest, pushRest, sendVars, svcRest>>

\* The task ofono_modem_added made for export_new_modem starts running.
ExportStart(t) ==
    /\ task[t].fn = "export" /\ task[t].pc = "ready"
    /\ export_new_modem(t, task, task[t].modem, task[t].rem)
    /\ UNCHANGED <<envVars, presVars, mgrRest, modem_added_block, ofono_modem_list,
                   has_bus, ofono_interface_props, ifaceSubs, ctxSubs, lockQ,
                   ifTasks, rescheduled, changed>>
    /\ UNCHANGED <<cacheVars, connRest, pushRest, sendVars, svcRest>>

(***************************************************************************)
(* add_ofono_interface and remove_ofono_interface run as tasks of their    *)
(* own when ofono_changed schedules them.                                  *)
(***************************************************************************)
RemoveAt(s, i) == SubSeq(s, 1, i - 1) \o SubSeq(s, i + 1, Len(s))

\* main.py:393-397 and 411-413 in a task of its own, and set_props as the
\* task ofono_mms_modemmanager.py:166 and 175 create: task i runs set_props
\* where runs holds, and is over unless set_props waits for the contexts
IfaceSetsProps(i, runs, ifs, iprops) ==
    LET sp == SetPropsStep(runs, ifs, iprops, mm_props) IN
    /\ mm_props' = sp.mm
    /\ ifTasks' = IF sp.pc = "get_contexts"
                  THEN [ifTasks EXCEPT ![i] = [@ EXCEPT !.pc = "get_contexts"]]
                  ELSE RemoveAt(ifTasks, i)

\* The event loop starts the tasks create_task made in the order they were
\* made: task i is the oldest one that has not started
StartsNext(i) ==
    /\ i \in 1..Len(ifTasks) /\ ifTasks[i].pc = "ready"
    /\ \A j \in 1..(i - 1) : ifTasks[j].pc # "ready"

\* main.py:336-358 and 390-397: the start of add_ofono_interface
AddStart(i) ==
    /\ StartsNext(i)
    /\ ifTasks[i].op = "add"
    /\ LET f == ifTasks[i].iface
           h == ProxyInterface(ofono_proxy, f)
           ifs == Update(ofono_interfaces, f, h) IN
       /\ ofono_interfaces' = ifs
       /\ IF h = "None"
          THEN IfaceSetsProps(i, ofono_mms_modemmanager_interface, ifs,
                              ofono_interface_props)
          ELSE /\ ifTasks' = [ifTasks EXCEPT ![i] = [@ EXCEPT !.pc = "props"]]
               /\ mm_props' = mm_props
    /\ UNCHANGED <<envVars, presVars, mgrVars, findVars, ofono_proxy, ofono_props,
                   ofono_interface_props, modemSubs, ifaceSubs, ctxSubs, lockVars,
                   task, serviceAdded, histVars>>
    /\ UNCHANGED <<cacheVars, connRest, pushVars, sendVars, svcVars>>

\* An error branch that stores the empty snapshot and registers no handler
AddPropsReply_unsubscribed(i, ok) ==
    /\ i \in 1..Len(ifTasks) /\ ok = Answered
    /\ ifTasks[i].op = "add" /\ ifTasks[i].pc = "props"
    /\ LET f == ifTasks[i].iface
           iprops == [ofono_interface_props EXCEPT
                         ![f] = IF ok THEN "fetched" ELSE "empty"]
       IN
       /\ ofono_interface_props' = iprops
       /\ IF Lookup(ofono_interfaces, f) = "absent"
          THEN /\ ifaceSubs' = ifaceSubs
               /\ ifTasks' = RemoveAt(ifTasks, i)
               /\ mm_props' = mm_props
          ELSE /\ ifaceSubs' = IF ~ok THEN ifaceSubs
                               ELSE [ifaceSubs EXCEPT
                                        ![Lookup(ofono_interfaces, f)][f] = @ + 1]
               /\ IfaceSetsProps(i, ofono_mms_modemmanager_interface,
                                 ofono_interfaces, iprops)
    /\ UNCHANGED <<envVars, presVars, mgrVars, findVars, ofono_proxy, ofono_props,
                   ofono_interfaces, modemSubs, ctxSubs, lockVars, task,
                   serviceAdded, histVars>>
    /\ UNCHANGED <<cacheVars, connRest, pushVars, sendVars, svcVars>>

\* main.py:360-397: call_get_properties answered (ok) or failed (DBusError);
\* the KeyError of a lookup that finds no entry ends the task
AddPropsReply(i, ok) ==
    /\ i \in 1..Len(ifTasks) /\ ok = Answered
    /\ ifTasks[i].op = "add" /\ ifTasks[i].pc = "props"
    /\ LET f == ifTasks[i].iface
           iprops == [ofono_interface_props EXCEPT
                         ![f] = IF ok THEN "fetched" ELSE "empty"]
       IN
       /\ ofono_interface_props' = iprops
       /\ IF Lookup(ofono_interfaces, f) = "absent"
          THEN /\ ifaceSubs' = ifaceSubs
               /\ ifTasks' = RemoveAt(ifTasks, i)
               /\ mm_props' = mm_props
          ELSE /\ ifaceSubs' = [ifaceSubs EXCEPT
                                   ![Lookup(ofono_interfaces, f)][f] = @ + 1]
               /\ IfaceSetsProps(i, ofono_mms_modemmanager_interface,
                                 ofono_interfaces, iprops)
    /\ UNCHANGED <<envVars, presVars, mgrVars, findVars, ofono_proxy, ofono_props,
                   ofono_interfaces, modemSubs, ctxSubs, lockVars, task,
                   serviceAdded, histVars>>
    /\ UNCHANGED <<cacheVars, connRest, pushVars, sendVars, svcVars>>

\* main.py:399-413: remove_ofono_interface up to the await of set_props
RemoveRun(i) ==
    /\ StartsNext(i)
    /\ ifTasks[i].op = "remove"
    /\ LET f == ifTasks[i].iface
           ifs == Pop(ofono_interfaces, f)
           iprops == [ofono_interface_props EXCEPT ![f] = "absent"] IN
       /\ ofono_interfaces' = ifs
       /\ ofono_interface_props' = iprops
       /\ IfaceSetsProps(i, ofono_mms_modemmanager_interface, ifs, iprops)
    /\ UNCHANGED <<envVars, presVars, mgrVars, findVars, ofono_proxy, ofono_props,
                   modemSubs, ifaceSubs, ctxSubs, lockVars, task, serviceAdded,
                   histVars>>
    /\ UNCHANGED <<cacheVars, connRest, pushVars, sendVars, svcVars>>

\* main.py:324-326, ch(name, varval) on one snapshot: the value is written
\* into the snapshot, so the empty one holds that property alone afterwards
\* and a fetched one holds the fetched set with that property replaced
ch(snapshot) ==
    CASE snapshot = "empty" -> "patched"
      [] snapshot = "patched" -> "patched"
      [] snapshot = "fetched" -> "updated"
      [] snapshot = "updated" -> "updated"

\* main.py:323-326: the handler of interface iface run on the property map
ofono_interface_changed(props, iface) ==
    IF props[iface] # "absent" THEN [props EXCEPT ![iface] = ch(@)] ELSE props

\* A set_props task as asyncio.create_task makes it
SetPropsTask == [op |-> "set_props", iface |-> "none", pc |-> "ready"]

\* main.py:329-330 with ofono_mms_modemmanager.py:171-175: the set_props
\* tasks n runs of the handler of iface leave behind; the handler reaches
\* the settings object when the property map has the entry
set_props_tasks(props, iface, n) ==
    IF ofono_mms_modemmanager_interface /\ props[iface] # "absent"
    THEN [k \in 1..n |-> SetPropsTask]
    ELSE <<>>

\* Interface f of modem m announces a changed property; the signal goes to
\* the handlers on_property_changed registered on that interface
\* (main.py:374 and 387)
InterfacePropertyChanged(m, f) ==
    /\ ofonoUp /\ m \in Range(envModems) /\ f \in Range(envIfaces[m])
    /\ ifaceSubs[m][f] > 0
    /\ ofono_interface_props' = ofono_interface_changed(ofono_interface_props, f)
    /\ changed' = changed \cup {f}
    /\ ifTasks' = ifTasks \o set_props_tasks(ofono_interface_props, f, ifaceSubs[m][f])
    /\ Len(ifTasks') <= MaxIfTasks
    /\ UNCHANGED <<envVars, presVars, mgrVars, findVars, ofono_proxy, ofono_props,
                   ofono_interfaces, modemSubs, ifaceSubs, ctxSubs, lockVars, task,
                   serviceAdded, queuedExport, lastDelivered, rescheduled>>
    /\ UNCHANGED <<cacheVars, connVars, pushVars, sendVars, svcVars>>

\* main.py:309-314: the tasks one call of ofono_changed("Interfaces", L)
\* creates: an add for each name of L the dict lacks, in the order of L, then
\* a remove for each key L lacks, in the order of the dict
ScheduledBy(ifs, L) ==
    LET adds == SelectSeq2(L, Ifaces \ Range(Keys(ifs)))
        rems == SelectSeq2(Keys(ifs), Ifaces \ Range(L))
    IN  [k \in 1..Len(adds) |-> [op |-> "add", iface |-> adds[k], pc |-> "ready"]]
        \o [k \in 1..Len(rems) |-> [op |-> "remove", iface |-> rems[k], pc |-> "ready"]]

\* The properties of a modem other than Interfaces that change
ModemProperties == {"Online"}

\* main.py:306-321: ofono_changed(name, L) on the state st. The value is
\* stored; for the name Interfaces the add and remove tasks are created
\* (st.props is the Interfaces entry of ofono_props); and for any name,
\* where the settings object is set, its ofono_changed creates a set_props
\* task (ofono_mms_modemmanager.py:164-166)
ofono_changed(st, name, L) ==
    LET new == IF name = "Interfaces" THEN ScheduledBy(ofono_interfaces, L) ELSE <<>>
        fan == IF ofono_mms_modemmanager_interface THEN <<SetPropsTask>> ELSE <<>>
    IN
    [props |-> IF name = "Interfaces" THEN L ELSE st.props,
     tasks |-> st.tasks \o new \o fan,
     last |-> IF name = "Interfaces" THEN L ELSE st.last,
     resched |-> st.resched + (IF st.last = L THEN Len(new) ELSE 0)]

\* One PropertyChanged signal reaches every handler registered for it, one
\* after the other, before any task runs.
RECURSIVE Dispatch(_, _, _, _)
Dispatch(n, st, name, L) ==
    IF n = 0 THEN st ELSE Dispatch(n - 1, ofono_changed(st, name, L), name, L)

(***************************************************************************)
(* Bus events.                                                             *)
(***************************************************************************)
\* main.py:89-95
ofono_added ==
    /\ FreeTasks # {}
    /\ ofono_manager_interface' = "set"
    /\ managerSubs' = managerSubs + 1
    /\ UNCHANGED objVars
    /\ task' = [task EXCEPT ![NextFree(FreeTasks)] =
                   [NoTask EXCEPT !.fn = "find", !.pc = "ready", !.org = "ofono_added"]]

\* main.py:97-99
ofono_removed ==
    /\ ofono_manager_interface' = "None"
    /\ UNCHANGED <<managerSubs, objVars, task>>

\* main.py:78-83: check_ofono_presence up to its await
CheckPresenceStart ==
    /\ presence = "init"
    /\ presence' = "asked"
    /\ hasOwnerReply' = ofonoUp
    /\ UNCHANGED <<envVars, mgrVars, findVars, ifVars, ctxSubs, lockVars, task,
                   ifTasks, serviceAdded, histVars>>
    /\ UNCHANGED <<cacheVars, connVars, pushVars, sendVars, svcVars>>

\* main.py:83-87
CheckPresenceReply ==
    /\ presence = "asked"
    /\ presence' = "done"
    /\ IF hasOwnerReply THEN ofono_added ELSE ofono_removed
    /\ UNCHANGED <<envVars, hasOwnerReply, findVars, ifVars, ctxSubs, lockVars,
                   ifTasks, serviceAdded, histVars>>
    /\ UNCHANGED <<cacheVars, connVars, pushVars, sendVars, svcVars>>

\* org.ofono gets an owner; main.py:159-165 once the handler is registered
OfonoAppears ==
    /\ ~ofonoUp /\ events < MaxEvents
    /\ ofonoUp' = TRUE /\ events' = events + 1
    /\ IF presence = "init"
       THEN UNCHANGED <<mgrVars, task>>
       ELSE ofono_added
    /\ UNCHANGED <<envModems, envIfaces, ctxActive, presVars, findVars, ifVars,
                   ctxSubs, lockVars, ifTasks, serviceAdded, histVars>>
    /\ UNCHANGED <<cacheVars, connVars, pushVars, sendVars, svcVars>>

\* org.ofono loses its owner
OfonoVanishes ==
    /\ ofonoUp /\ events < MaxEvents
    /\ ofonoUp' = FALSE /\ events' = events + 1
    /\ envModems' = <<>>
    /\ envIfaces' = [m \in ModemIds |-> InitialInterfaces(m)]
    /\ IF presence = "init"
       THEN UNCHANGED <<mgrVars, task>>
       ELSE ofono_removed
    /\ UNCHANGED <<ctxActive, presVars, findVars, ifVars, ctxSubs, lockVars,
                   ifTasks, serviceAdded, histVars>>
    /\ UNCHANGED <<cacheVars, connVars, pushVars, sendVars, svcVars>>

\* The k lowest free task slots.
FirstFree(k) == {t \in FreeTasks : Cardinality({u \in FreeTasks : u < t}) < k}

\* A handler that does not look at modem_added_block
ModemAdded_unguarded(m) ==
    /\ ofonoUp /\ events < MaxEvents
    /\ m \notin Range(envModems)
    /\ envModems' = Append(envModems, m) /\ events' = events + 1
    /\ IF managerSubs = 0
       THEN task' = task
       ELSE /\ Cardinality(FreeTasks) >= managerSubs
            /\ task' = [t \in TaskIds |->
                          IF t \in FirstFree(managerSubs)
                          THEN [NoTask EXCEPT !.fn = "export", !.pc = "ready",
                                              !.org = "modem_added", !.modem = m,
                                              !.rem = envIfaces[m]]
                          ELSE task[t]]
    /\ UNCHANGED <<ofonoUp, envIfaces, ctxActive, presVars, mgrVars, findVars,
                   ifVars, ctxSubs, lockVars, ifTasks, serviceAdded, histVars>>
    /\ UNCHANGED <<cacheVars, connVars, pushVars, sendVars, svcVars>>

\* oFono announces modem m; main.py:167-177 runs once per registered handler
ModemAdded(m) ==
    /\ ofonoUp /\ events < MaxEvents
    /\ m \notin Range(envModems)
    /\ envModems' = Append(envModems, m) /\ events' = events + 1
    /\ IF modem_added_block \/ managerSubs = 0
       THEN task' = task
       ELSE /\ Cardinality(FreeTasks) >= managerSubs
            /\ task' = [t \in TaskIds |->
                          IF t \in FirstFree(managerSubs)
                          THEN [NoTask EXCEPT !.fn = "export", !.pc = "ready",
                                              !.org = "modem_added", !.modem = m,
                                              !.rem = envIfaces[m]]
                          ELSE task[t]]
    /\ UNCHANGED <<ofonoUp, envIfaces, ctxActive, presVars, mgrVars, findVars,
                   ifVars, ctxSubs, lockVars, ifTasks, serviceAdded, histVars>>
    /\ UNCHANGED <<cacheVars, connVars, pushVars, sendVars, svcVars>>

\* main.py:288-295, the inner loop for one recorded object path: the first
\* interface whose modem_name is the path is handed to unexport, and an
\* exception ends the loop (the except clause of main.py:294)
RECURSIVE unexport_matching(_, _, _)
unexport_matching(bus, interfaces, path) ==
    IF interfaces = <<>> THEN bus
    ELSE IF Head(interfaces).modem_name = path
    THEN LET r == unexport(bus, AnObject(Head(interfaces))) IN
         IF r.raised THEN r.bus ELSE unexport_matching(r.bus, Tail(interfaces), path)
    ELSE unexport_matching(bus, Tail(interfaces), path)

\* main.py:284-298: what ofono_modem_removed(path) leaves on the bus
RECURSIVE ofono_modem_removed(_, _, _, _)
ofono_modem_removed(bus, objects, interfaces, path) ==
    IF objects = <<>> THEN bus
    ELSE ofono_modem_removed(unexport_matching(bus, interfaces, path),
                             Tail(objects), interfaces, path)

\* oFono drops modem m; main.py:284-298 runs when on_modem_removed was
\* registered (main.py:94)
ModemRemoved(m) ==
    /\ ofonoUp /\ events < MaxEvents
    /\ m \in Range(envModems)
    /\ envModems' = SelectSeq2(envModems, ModemIds \ {m}) /\ events' = events + 1
    /\ envIfaces' = [envIfaces EXCEPT ![m] = InitialInterfaces(m)]
    /\ IF managerSubs = 0
       THEN UNCHANGED <<ofono_mms_objects, ofono_mms_interfaces, exports, modemGone>>
       ELSE /\ exports' = ofono_modem_removed(exports, ofono_mms_objects,
                                              ofono_mms_interfaces, PathOf(m))
            /\ ofono_mms_objects' = <<>>
            /\ ofono_mms_interfaces' = <<>>
            /\ modemGone' = modemGone \cup {PathOf(m)}
    /\ UNCHANGED <<ofonoUp, ctxActive, presVars, mgrVars, modem_added_block,
                   ofono_modem_list, has_bus, ifVars, ctxSubs, lockVars, task,
                   ifTasks, serviceAdded, histVars>>
    /\ UNCHANGED <<cacheVars, connVars, pushVars, sendVars, messages, removed, deleted, markedRead>>

\* Modem m announces Interfaces = L; main.py:306-321 runs once per handler
\* export_new_modem registered on the modem
InterfacesChanged(m, L) ==
    /\ ofonoUp /\ events < MaxEvents
    /\ m \in Range(envModems) /\ modemSubs[m] > 0
    /\ L # envIfaces[m]
    /\ envIfaces' = [envIfaces EXCEPT ![m] = L] /\ events' = events + 1
    /\ LET st == Dispatch(modemSubs[m],
                          [props |-> ofono_props, tasks |-> ifTasks,
                           last |-> lastDelivered, resched |-> rescheduled],
                          "Interfaces", L) IN
       /\ Len(st.tasks) <= MaxIfTasks
       /\ ofono_props' = st.props
       /\ ifTasks' = st.tasks
       /\ lastDelivered' = st.last
       /\ rescheduled' = st.resched
    /\ UNCHANGED <<ofonoUp, envModems, ctxActive, presVars, mgrVars, findVars,
                   ofono_proxy, ofono_interfaces, ofono_interface_props, modemSubs,
                   ifaceSubs, ctxSubs, lockVars, task, serviceAdded, queuedExport, changed>>
    /\ UNCHANGED <<cacheVars, connVars, pushVars, sendVars, svcVars>>

\* Modem m announces another property, with a value the model does not
\* keep; main.py:306-321 runs once per handler export_new_modem registered
\* on the modem
ModemPropertyChanged(m, name) ==
    /\ ofonoUp /\ m \in Range(envModems) /\ modemSubs[m] > 0
    /\ name \in ModemProperties
    /\ LET st == Dispatch(modemSubs[m],
                          [props |-> ofono_props, tasks |-> ifTasks,
                           last |-> lastDelivered, resched |-> rescheduled],
                          name, <<>>) IN
       /\ Len(st.tasks) <= MaxIfTasks
       /\ ofono_props' = st.props
       /\ ifTasks' = st.tasks
       /\ lastDelivered' = st.last
       /\ rescheduled' = st.resched
    /\ UNCHANGED <<envVars, presVars, mgrVars, findVars,
                   ofono_proxy, ofono_interfaces, ofono_interface_props, modemSubs,
                   ifaceSubs, ctxSubs, lockVars, task, serviceAdded, queuedExport, changed>>
    /\ UNCHANGED <<cacheVars, connVars, pushVars, sendVars, svcVars>>

\* The tasks dbus_next makes for the handlers of one signal: one task that
\* runs context_active_changed, and inside it force_activate_context
\* (main.py:253-269), for each time the handler was registered
ActiveHandlers(n) ==
    [k \in 1..n |-> [op |-> "force_activate_context", iface |-> "none", pc |-> "ready"]]

\* A context that two exports registered the handler on
ContextDropped_watched ==
    /\ ofonoUp /\ events < MaxEvents
    /\ EligibleModems(envModems) # <<>>
    /\ ctxActive
    /\ ctxActive' = FALSE /\ events' = events + 1
    /\ ifTasks' = ifTasks \o ActiveHandlers(2)
    /\ Len(ifTasks') <= MaxIfTasks
    /\ UNCHANGED <<ofonoUp, envModems, envIfaces, presVars, mgrVars, findVars,
                   ifVars, ctxSubs, lockVars, task, serviceAdded, histVars>>
    /\ UNCHANGED <<cacheVars, connVars, pushVars, sendVars, svcVars>>

\* The MMS context of a listed modem reports Active = false; the signal goes
\* to the handlers context_active_changed was registered as on that context
\* (main.py:215). main.py:215 is never reached, so there is none.
ContextDropped ==
    /\ ofonoUp /\ events < MaxEvents
    /\ EligibleModems(envModems) # <<>>
    /\ ctxActive
    /\ ctxActive' = FALSE /\ events' = events + 1
    /\ \E p \in ContextPaths : ifTasks' = ifTasks \o ActiveHandlers(ctxSubs[p])
    /\ Len(ifTasks') <= MaxIfTasks
    /\ UNCHANGED <<ofonoUp, envModems, envIfaces, presVars, mgrVars, findVars,
                   ifVars, ctxSubs, lockVars, task, serviceAdded, histVars>>
    /\ UNCHANGED <<cacheVars, connVars, pushVars, sendVars, svcVars>>

\* main.py:54-66: a client calls GetServices; where no service object is
\* recorded the call runs into find_ofono_modems at once, and ServiceAdded
\* follows when that is over; where one is recorded ServiceAdded is all
GetServices ==
    /\ events < MaxEvents
    /\ events' = events + 1
    /\ IF ofono_mms_service_interface
       THEN /\ serviceAdded' = serviceAdded + 1
            /\ UNCHANGED <<task, lockVars, modem_added_block, ofono_modem_list,
                           ofono_mms_objects, ofono_mms_interfaces, exports>>
       ELSE /\ FreeTasks # {}
            /\ LET t == NextFree(FreeTasks) IN
               find_ofono_modems(t, [task EXCEPT ![t] =
                   [NoTask EXCEPT !.fn = "find", !.pc = "ready", !.org = "GetServices"]])
    /\ UNCHANGED <<ofonoUp, envModems, envIfaces, ctxActive, presVars, mgrVars,
                   has_bus, ifVars, ctxSubs, ifTasks, histVars>>
    /\ UNCHANGED <<cacheVars, connVars, pushVars, sendVars, messages, removed, deleted, markedRead, modemGone>>

(***************************************************************************)
(* The agent at work. A ReceiveNotification call and the retry task stop   *)
(* at each await; the environment answers the bus calls and the fetches.   *)
(***************************************************************************)
\* A queue that loses what is put on it
put_nowait_lost(q, item) == q

\* asyncio.Queue.put_nowait, ofono_push_notification.py:46 and 105
put_nowait(q, item) == Append(q, item)

\* ofono_push_notification.py:183-207: what fetch_mms_content returns for
\* the outcome of the HTTP request, None unless the status is 200
FetchOutcomes == {"200", "500", "exception"}
fetch_mms_content(outcome, body) ==
    IF outcome = "200" THEN [ok |-> TRUE, content |-> body]
    ELSE [ok |-> FALSE, content |-> body]

\* A ReceiveNotification that goes on to fetch whatever the headers say
ReceiveNotification_fetch_anyway(k) ==
    /\ Len(notifs) < MaxNotifs
    /\ run \in scans
    /\ notifs' = Append(notifs,
           [kind |-> k, sender |-> Sanitize(k.from), fails |-> 0,
            recvFailed |-> FALSE, fetched |-> FALSE,
            pc |-> IF cm_tracked THEN "ctx" ELSE "fetch"])
    /\ UNCHANGED <<daemonVars, cacheVars, connVars, svcVars, sendVars, sim_props, cm_tracked, cm_props, retry_queue, retry,
                   files, published, run, scans>>

\* ofono_push_notification.py:79-99 and 273-276: ReceiveNotification up to
\* its first await. oFono calls the agent once it is registered, and no
\* await lies between the registration and export_old_messages
\* (main.py:200-203)
ReceiveNotification(k) ==
    /\ Len(notifs) < MaxNotifs
    /\ run \in scans
    /\ notifs' = Append(notifs,
           [kind |-> k, sender |-> Sanitize(k.from), fails |-> 0,
            recvFailed |-> FALSE, fetched |-> FALSE,
            pc |-> IF ~k.loc THEN "returned"
                   ELSE IF cm_tracked THEN "ctx" ELSE "fetch"])
    /\ UNCHANGED <<daemonVars, cacheVars, connVars, svcVars, sendVars, sim_props, cm_tracked, cm_props, retry_queue, retry,
                   files, published, run, scans>>

\* ofono_push_notification.py:276-281 and 99-100: call_get_contexts answered
\* or failed with a DBusError, which ReceiveNotification lets through
RecvContextsReply(n, ok) ==
    /\ n \in 1..Len(notifs) /\ notifs[n].pc = "ctx"
    /\ notifs' = [notifs EXCEPT ![n].pc = IF ok THEN "fetch" ELSE "raised"]
    /\ UNCHANGED <<daemonVars, cacheVars, connVars, svcVars, sendVars, sim_props, cm_tracked, cm_props, retry_queue, retry,
                   files, published, run, scans>>

\* ofono_push_notification.py:100-105: the fetch of ReceiveNotification is over
RecvFetched(n, outcome) ==
    /\ n \in 1..Len(notifs) /\ notifs[n].pc = "fetch"
    /\ LET response == fetch_mms_content(outcome, notifs[n].kind.body) IN
       IF response.ok
       THEN LET r == process_mms_content(Len(files) + 1, response.content,
                         notifs[n].sender, notifs[n].kind.sent, sim_props_agent,
                         mm_props.ModemNumber) IN
            /\ files' = Append(files, r.file)
            /\ published' = published \o Tagged(r.pubs, n, run)
            /\ exports' = Exported(exports, r.pubs)
            /\ messages' = Listed(messages, r.pubs)
            /\ notifs' = [notifs EXCEPT ![n].fetched = TRUE,
                              ![n].pc = IF r.raised THEN "raised" ELSE "returned"]
            /\ UNCHANGED retry_queue
       ELSE /\ notifs[n].fails < MaxFails
            /\ retry_queue' = put_nowait(retry_queue, n)
            /\ notifs' = [notifs EXCEPT ![n].fails = @ + 1, ![n].recvFailed = TRUE,
                              ![n].pc = "returned"]
            /\ UNCHANGED <<files, published, exports, messages>>
    /\ UNCHANGED <<daemonVars, cacheVars, connVars, ofono_mms_interfaces, removed, deleted, markedRead,
                   modemGone, sendVars, sim_props, cm_tracked, cm_props, retry, run, scans>>

\* ofono_push_notification.py:39-41: the retry task takes the oldest entry
RetryGet ==
    /\ retry.pc = "get" /\ retry_queue # <<>>
    /\ retry' = [pc |-> IF cm_tracked THEN "ctx" ELSE "fetch", item |-> Head(retry_queue)]
    /\ retry_queue' = Tail(retry_queue)
    /\ UNCHANGED <<daemonVars, cacheVars, connVars, svcVars, sendVars, sim_props, cm_tracked, cm_props, notifs, files,
                   published, run, scans>>

\* ofono_push_notification.py:41 and 276-281: a DBusError ends the task
RetryContextsReply(ok) ==
    /\ retry.pc = "ctx"
    /\ retry' = IF ok THEN [retry EXCEPT !.pc = "fetch"] ELSE [pc |-> "dead", item |-> 0]
    /\ UNCHANGED <<daemonVars, cacheVars, connVars, svcVars, sendVars, sim_props, cm_tracked, cm_props, notifs, retry_queue,
                   files, published, run, scans>>

\* ofono_push_notification.py:42-47: the fetch of the retry task is over; an
\* exception of process_mms_content ends the task
RetryFetched(outcome) ==
    /\ retry.pc = "fetch"
    /\ LET n == retry.item
           response == fetch_mms_content(outcome, notifs[n].kind.body) IN
       IF response.ok
       THEN LET r == process_mms_content(Len(files) + 1, response.content,
                         notifs[n].sender, notifs[n].kind.sent, sim_props_agent,
                         mm_props.ModemNumber) IN
            /\ files' = Append(files, r.file)
            /\ published' = published \o Tagged(r.pubs, n, run)
            /\ exports' = Exported(exports, r.pubs)
            /\ messages' = Listed(messages, r.pubs)
            /\ notifs' = [notifs EXCEPT ![n].fetched = TRUE]
            /\ retry' = IF r.raised THEN [pc |-> "dead", item |-> 0]
                        ELSE [pc |-> "sleep", item |-> 0]
            /\ UNCHANGED retry_queue
       ELSE /\ notifs[n].fails < MaxFails
            /\ retry_queue' = put_nowait(retry_queue, n)
            /\ notifs' = [notifs EXCEPT ![n].fails = @ + 1]
            /\ retry' = [pc |-> "sleep", item |-> 0]
            /\ UNCHANGED <<files, published, exports, messages>>
    /\ UNCHANGED <<daemonVars, cacheVars, connVars, ofono_mms_interfaces, removed, deleted, markedRead,
                   modemGone, sendVars, sim_props, cm_tracked, cm_props, run, scans>>

\* ofono_push_notification.py:47
RetrySleepDone ==
    /\ retry.pc = "sleep"
    /\ retry' = [pc |-> "get", item |-> 0]
    /\ UNCHANGED <<daemonVars, cacheVars, connVars, svcVars, sendVars, sim_props, cm_tracked, cm_props, notifs, retry_queue,
                   files, published, run, scans>>

ReadState == <<"r", "e", "a", "d">>

\* The tokens pubs has a message object with the Status read for
ReadTokens(fs, pubs) ==
    {u \in 1..Len(fs) : \E i \in 1..Len(pubs) :
        pubs[i].path = ObjectPath(u) /\ pubs[i].Status = ReadState}

\* The props of the settings object next to a SimManager entry sim: set_props
\* has run on the entry, or the entry came after its last run
PropsBeside(sim) == {DefaultProps, set_props_numbers(DefaultProps, sim)}

\* The daemon process ends and one is started on the same storage directory.
\* The calls, the retry queue and the send_message threads of the old
\* process are gone (a call or thread that had not ended is kept with the pc
\* gone). The objects of the new process are as their constructors leave
\* them: the service lists no message (ofono_mms_service.py:38), the bus
\* holds the Manager object, the queue of the agent is empty and its retry
\* task new (ofono_push_notification.py:35-36), and the settings object has
\* what its set_props made of the props of ofono_mms_modemmanager.py:25-33
\* (main.py:192-194: no await lies between the constructor and the numbers
\* set_props takes from the SimManager entry), and the agent holds the
\* property map of the manager (main.py:199). export_old_messages has not
\* been called in this process, which has made no fetch yet: fails counts
\* the failed fetches of the process that runs, recvFailed keeps that the
\* call of ReceiveNotification failed.
Restart ==
    /\ run < MaxRestarts
    /\ run' = run + 1
    /\ notifs' = [n \in 1..Len(notifs) |->
                    IF notifs[n].pc \in {"ctx", "fetch"}
                    THEN [notifs[n] EXCEPT !.pc = "gone", !.fails = 0]
                    ELSE [notifs[n] EXCEPT !.fails = 0]]
    /\ retry_queue' = <<>>
    /\ retry' = [pc |-> "get", item |-> 0]
    /\ sends' = [i \in 1..Len(sends) |->
                   IF sends[i].pc \in {"try", "proxy", "connect", "sleep"}
                   THEN [sends[i] EXCEPT !.pc = "gone"] ELSE sends[i]]
    /\ mm_props' = set_props_numbers(DefaultProps, sim_props)
    /\ sim_props_agent' = sim_props
    /\ agent_copied' = FALSE
    /\ exports' = {ManagerObject}
    /\ messages' = <<>>
    /\ markedRead' = {}
    /\ UNCHANGED <<daemonVars, cacheVars, contexts, activated, fetch_proxy, connCalls,
                   ofono_mms_interfaces, removed, deleted, modemGone, sim_props,
                   cm_tracked, cm_props, files, published, scans>>

\* ofono_push_notification.py:113-181 with main.py:217-240:
\* export_old_messages of the agent of this process is called, as main.py:203
\* calls it, once. The call has no await: it reads the directory and
\* publishes in one step.
ExportOldMessages(order) ==
    /\ run \notin scans
    /\ scans' = scans \cup {run}
    /\ LET old == export_old_messages(files, order, mm_props.ModemNumber) IN
       /\ published' = published \o Tagged(old, 0, run)
       /\ exports' = Exported(exports, old)
       /\ messages' = Listed(messages, old)
       /\ markedRead' = markedRead \cup ReadTokens(files, old)
    /\ UNCHANGED <<daemonVars, cacheVars, connVars, ofono_mms_interfaces, removed, deleted,
                   modemGone, sendVars, sim_props, cm_tracked, cm_props, notifs,
                   retry_queue, retry, files, run>>

(***************************************************************************)
(* The MMS service object, OfonoMMSServiceInterface: SendMessage and the   *)
(* send_message loop that runs in a worker thread of its own.              *)
(***************************************************************************)
MaxSends == 1       \* SendMessage calls in a run
MaxDeletes == 2     \* Delete calls in a run
MaxSendFails == 2   \* failed transmission attempts in a run

Digits == {"0", "1", "2", "3", "4", "5", "6", "7", "8", "9"}
IsDigit(c) == c \in Digits
DigitVal(c) ==
    CASE c = "0" -> 0 [] c = "1" -> 1 [] c = "2" -> 2 [] c = "3" -> 3 [] c = "4" -> 4
      [] c = "5" -> 5 [] c = "6" -> 6 [] c = "7" -> 7 [] c = "8" -> 8 [] c = "9" -> 9

\* int(text): the value of a run of digits, ValueError for anything else
RECURSIVE DigitsValue(_, _)
DigitsValue(t, acc) ==
    IF t = <<>> THEN acc ELSE DigitsValue(Tail(t), 10 * acc + DigitVal(Head(t)))

ParseInt(t) ==
    IF t # <<>> /\ \A i \in 1..Len(t) : IsDigit(t[i])
    THEN [ok |-> TRUE, val |-> DigitsValue(t, 0)]
    ELSE [ok |-> FALSE, val |-> 0]

\* t.split(c)
RECURSIVE SplitAll(_, _)
SplitAll(t, c) ==
    LET i == IndexOf(t, c, 1) IN
    IF i = 0 THEN <<t>>
    ELSE <<SubSeq(t, 1, i - 1)>> \o SplitAll(SubSeq(t, i + 1, Len(t)), c)

\* A setting and the value a client hands to ChangeSettings or, as the one
\* entry of the dict, to ChangeAllSettings. The value is there in the form
\* the setting is kept in: chars for a text the code looks inside, text for
\* any other text, flag for a boolean
Option(key, chars, text, flag) == [key |-> key, chars |-> chars, text |-> text, flag |-> flag]
SettingOptions == {
    Option("CarrierMMSProxy", <<"p", ":", "8", "1">>, "", FALSE),
    Option("CarrierMMSProxy", <<"p", ":", "x">>, "", FALSE),
    Option("CarrierMMSProxy", <<"a", ":", "b", ":", "1">>, "", FALSE),
    Option("CarrierMMSC", <<>>, "http://mmsc.example", FALSE),
    Option("MMS_APN", <<>>, "mms.b", FALSE),
    Option("DefaultModemNumber", NumC, "", FALSE),
    Option("ModemNumber", NumC, "", FALSE),
    Option("Unknown", <<>>, "", FALSE)}

\* The options that name a setting send_message reads, or no setting
GatewayOptions ==
    {o \in SettingOptions : o.key \in {"CarrierMMSProxy", "CarrierMMSC", "Unknown"}}

\* The options that name a setting set_props writes and send_message does
\* not read
NumberOptions == SettingOptions \ GatewayOptions

\* ofono_mms_service.py:113-121: the gateway one attempt of send_message
\* addresses; ok is false when the proxy setting makes the attempt raise
\* ValueError before it connects
NoGateway == [ok |-> FALSE, mmsc |-> "", host |-> <<>>, port |-> 0]
ResolveGateway(st) ==
    LET proxy == IF ":" \notin Range(st.CarrierMMSProxy)
                 THEN st.CarrierMMSProxy \o <<":", "8", "0">>
                 ELSE st.CarrierMMSProxy
        pieces == SplitAll(proxy, ":")
    IN  IF Len(pieces) # 2 THEN NoGateway
        ELSE IF ~ParseInt(pieces[2]).ok THEN NoGateway
        ELSE [ok |-> TRUE, mmsc |-> st.CarrierMMSC, host |-> pieces[1],
              port |-> ParseInt(pieces[2]).val]

\* The recipients and attachments clients hand to SendMessage
RecipientLists == {<<<<"5", "-", "2">>>>, <<<<"5", "-", "2">>, NumC>>}
AttachmentLists == {
    <<>>,
    <<[id |-> "cid-1", ctype |-> TextType, exists |-> TRUE, size |-> 2]>>,
    <<[id |-> "cid-1", ctype |-> TextType, exists |-> FALSE, size |-> 0]>>}

\* ofono_mms_service.py:51-54: a string generate_random_string returns, eight
\* upper-case letters and digits
RandomStrings == {<<"A", "9", "C", "D", "Z", "0", "G", "H">>}

\* datetime.now().strftime('%Y-%m-%dT%H:%M:%S')
Now == <<"2", "4", "T", "1", "1">>

\* MMSMessage.smil() with its white space removed: one element per page
smil(pages) == <<Bare("smil")>> \o [i \in 1..pages |-> Elem("text", FileB)]

\* ofono_mms_service.py:56-105: the headers and pages of the message built;
\* the payload is the message the codec encodes
build_message(modem_number, recipients, attachments, id) ==
    LET to == [i \in 1..Len(recipients) |-> SelectSeq(recipients[i], IsDigit) \o Plmn]
        mms == [From |-> IF modem_number # <<>> THEN modem_number \o Plmn ELSE None,
                To |-> to, TransactionId |-> id, pages |-> Len(attachments)]
    IN  [mms |-> mms, payload |-> mms, smil |-> smil(Len(attachments)), id |-> id]

\* Message files that are still empty when SendMessage returns
create_message_files_later(pdu, uuid, date, id) ==
    [kind |-> "sent", pdu |-> TRUE, body |-> [From |-> None, To |-> <<>>, TransactionId |-> <<>>, pages |-> 0],
     headers |-> FALSE,
     readLine |-> <<>>, stateLine |-> <<>>, idLine |-> <<>>,
     dateLine |-> <<>>, nAttach |-> 0]

\* ofono_mms_service.py:188-200
create_message_files(pdu, uuid, date, id) ==
    [kind |-> "sent", pdu |-> TRUE, body |-> pdu, headers |-> FALSE,
     readLine |-> ReadKey \o FalseText,
     stateLine |-> StateKey \o Sent, idLine |-> IdKey \o id,
     dateLine |-> DateKey \o date, nAttach |-> 0]

\* ofono_mms_service.py:217-223
updated_attachments(attachments) ==
    [i \in 1..Len(attachments) |->
        [cid |-> attachments[i].id, ctype |-> attachments[i].ctype, index |-> i,
         offset |-> 0, len |-> attachments[i].size]]

\* ofono_mms_service.py:212-252: SendMessage and SendMessage2 have the same
\* body. getsize raises OSError for an attachment whose file is missing and
\* nothing else happens; otherwise the thread is queued, the files are
\* written and the message is published, and the call returns what
\* export_mms_message returned.
SendMessageBody(recipients, attachments, id) ==
    /\ Len(sends) < MaxSends
    /\ IF \E i \in 1..Len(attachments) : ~attachments[i].exists
       THEN /\ sends' = Append(sends, [uuid |-> 0, raised |-> TRUE, ret |-> None,
                                        pc |-> "none", attempts |-> 0, fails |-> 0,
                                        mmsc |-> "", held |-> {},
                                        target |-> NoGateway, single |-> FALSE])
            /\ UNCHANGED <<files, published, exports, messages>>
       ELSE LET uuid == Len(files) + 1
                modem_number == mm_props.ModemNumber
                b == build_message(modem_number, recipients, attachments, id)
                msg == export_mms_message(uuid, Sent, Now, modem_number,
                           "false", recipients, b.smil,
                           updated_attachments(attachments), modem_number)
            IN  /\ files' = Append(files, create_message_files(b.payload, uuid, Now, b.id))
                /\ published' = published \o Tagged(<<msg>>, 0, run)
                /\ exports' = Exported(exports, <<msg>>)
                /\ messages' = Listed(messages, <<msg>>)
                /\ sends' = Append(sends, [uuid |-> uuid, raised |-> FALSE, ret |-> msg.ret,
                                           pc |-> "try", attempts |-> 0, fails |-> 0,
                                           mmsc |-> "", held |-> {},
                                           target |-> NoGateway,
                                           single |-> Len(recipients) = 1 /\ attachments = <<>>])
    /\ UNCHANGED <<daemonVars, cacheVars, connVars, ofono_mms_interfaces, removed, deleted, markedRead,
                   modemGone, sim_props, cm_tracked, cm_props, notifs, retry_queue, retry, run, scans>>

SendMessage(recipients, attachments, id) == SendMessageBody(recipients, attachments, id)

SendMessage2(recipients, attachments, id) == SendMessageBody(recipients, attachments, id)

\* A loop that gives up at the first attempt that raises
AfterFailure_give_up(t) == [t EXCEPT !.pc = "done", !.fails = @ + 1]

\* ofono_mms_service.py:145-147: the attempt raised
AfterFailure(t) == [t EXCEPT !.pc = "sleep", !.fails = @ + 1]

\* ofono_mms_service.py:143-144: the attempt went through
AfterSuccess(t) == [t EXCEPT !.pc = "done"]

\* ofono_mms_service.py:111-113: a pass of the loop of send_message starts
\* and the thread reads CarrierMMSC. The thread runs beside the event loop,
\* which may change the settings before the thread reads the next one. Until
\* then held is the set of proxy settings that were there next to the
\* CarrierMMSC the thread has read, from that read on.
SendPassStart(i) ==
    /\ i \in 1..Len(sends) /\ sends[i].pc = "try"
    /\ sends' = [sends EXCEPT ![i] = [@ EXCEPT !.pc = "proxy",
                                               !.mmsc = mm_props.CarrierMMSC,
                                               !.held = {mm_props.CarrierMMSProxy}]]
    /\ UNCHANGED <<daemonVars, cacheVars, connVars, svcVars, pushVars>>

\* The attempts of the threads that failed so far
RECURSIVE FailedAttempts(_)
FailedAttempts(threads) ==
    IF threads = <<>> THEN 0 ELSE Head(threads).fails + FailedAttempts(Tail(threads))

\* ofono_mms_service.py:114-124: the thread reads CarrierMMSProxy and takes
\* it apart; a proxy that is no host:port raises ValueError and the pass is
\* over (attempts counts the passes that ended), otherwise the thread calls
\* connect and waits there while the event loop goes on
SendPassProxy(i) ==
    /\ i \in 1..Len(sends) /\ sends[i].pc = "proxy"
    /\ LET gw == ResolveGateway([CarrierMMSC |-> sends[i].mmsc,
                                 CarrierMMSProxy |-> mm_props.CarrierMMSProxy])
           read == [sends[i] EXCEPT !.mmsc = "", !.held = {}]
       IN
       IF gw.ok
       THEN sends' = [sends EXCEPT ![i] = [read EXCEPT !.pc = "connect", !.target = gw]]
       ELSE /\ FailedAttempts(sends) < MaxSendFails
            /\ sends' = [sends EXCEPT ![i] = AfterFailure([read EXCEPT !.attempts = @ + 1])]
    /\ UNCHANGED <<daemonVars, cacheVars, connVars, svcVars, pushVars>>

\* ofono_mms_service.py:124-147: the rest of the pass, with the gateway read
\* at its start. The gateway accepts the connection and takes the message
\* ("ok"), refuses the connection, or drops it half way. The pass is over
\* and with it the host, port and MMSC it had in its local variables.
GatewayAnswers == {"ok", "refused", "reset"}
SendAttempt(i, answer) ==
    /\ i \in 1..Len(sends) /\ sends[i].pc = "connect"
    /\ LET t == [sends[i] EXCEPT !.attempts = @ + 1, !.target = NoGateway] IN
       IF answer = "ok"
       THEN sends' = [sends EXCEPT ![i] = AfterSuccess(t)]
       ELSE /\ FailedAttempts(sends) < MaxSendFails
            /\ sends' = [sends EXCEPT ![i] = AfterFailure(t)]
    /\ UNCHANGED <<daemonVars, cacheVars, connVars, svcVars, pushVars>>

\* ofono_mms_service.py:147: sleep(5) is over
SendSleepDone(i) ==
    /\ i \in 1..Len(sends) /\ sends[i].pc = "sleep"
    /\ sends' = [sends EXCEPT ![i].pc = "try"]
    /\ UNCHANGED <<daemonVars, cacheVars, connVars, svcVars, pushVars>>

\* ofono_mms_modemmanager.py:110-111 and 117-119: a setting the props hold,
\* whichever it is, gets the value the client gave; any other name is ignored
changed_setting(props, options) ==
    CASE options.key = "CarrierMMSC" -> [props EXCEPT !.CarrierMMSC = options.text]
      [] options.key = "MMS_APN" -> [props EXCEPT !.MMS_APN = options.text]
      [] options.key = "CarrierMMSProxy" -> [props EXCEPT !.CarrierMMSProxy = options.chars]
      [] options.key = "DefaultModemNumber" ->
             [props EXCEPT !.DefaultModemNumber = options.chars]
      [] options.key = "ModemNumber" -> [props EXCEPT !.ModemNumber = options.chars]
      [] options.key = "AutoProcessOnConnection" ->
             [props EXCEPT !.AutoProcessOnConnection = options.flag]
      [] options.key = "AutoProcessSMSWAP" ->
             [props EXCEPT !.AutoProcessSMSWAP = options.flag]
      [] OTHER -> props

\* What the threads between their two reads have seen of the settings once
\* the props are props
Noted(threads, props) ==
    [i \in 1..Len(threads) |->
        IF threads[i].pc = "proxy" /\ threads[i].mmsc = props.CarrierMMSC
        THEN [threads[i] EXCEPT !.held = @ \cup {props.CarrierMMSProxy}]
        ELSE threads[i]]

\* ofono_mms_modemmanager.py:107-112: ChangeSettings(setting, value) writes
\* props and the settings file, and then awaits what save_settings_to_file
\* returned, which is None: the call ends with TypeError, the props as
\* changed. For a name the props lack the call returns and nothing changed
ChangeSettings(options) ==
    /\ \E props \in {changed_setting(mm_props, options)} :
          /\ mm_props' = props
          /\ sends' = Noted(sends, props)
    /\ UNCHANGED <<daemonVars, cacheVars, svcVars, pushVars>>
    /\ UNCHANGED connRest

\* ofono_mms_modemmanager.py:114-120: ChangeAllSettings(options) with one
\* entry in options
ChangeAllSettings(options) ==
    /\ \E props \in {changed_setting(mm_props, options)} :
          /\ mm_props' = props
          /\ sends' = Noted(sends, props)
    /\ UNCHANGED <<daemonVars, cacheVars, svcVars, pushVars>>
    /\ UNCHANGED connRest

(***************************************************************************)
(* The message object, OfonoMMSMessageInterface, with the callback         *)
(* delete_mms_message of main.py.                                          *)
(***************************************************************************)
\* The files the storage directory holds for a token: the payload <uuid>,
\* <uuid>.status, <uuid>.headers and the <uuid>.attachment.N
FileKinds == {"pdu", "status", "headers", "attachments"}

\* What there is to read of a payload file that is not there
NoBody == [parts |-> <<>>]

\* Whether the directory holds a file of kind k for the token
Has(f, k) ==
    CASE k = "pdu" -> f.pdu
      [] k = "status" -> f.kind # "none"
      [] k = "headers" -> f.headers
      [] OTHER -> f.nAttach > 0

\* The files os.remove may fail on with OSError in one Delete call
\* (ofono_mms_message.py:62-66): none, the payload, or every file but the
\* payload; the attachment files of a token fail together
RemovalFailures ==
    {{}, {"pdu"}, {"status", "headers", "attachments"}}

\* ofono_mms_message.py:60-66: what is left of the files f of a token when
\* the removals of the kinds in failed raised OSError and the others went
\* through
Remaining(f, failed) ==
    [kind |-> IF "status" \in failed THEN f.kind ELSE "none",
     pdu |-> f.pdu /\ "pdu" \in failed,
     body |-> IF "pdu" \in failed THEN f.body ELSE NoBody,
     headers |-> f.headers /\ "headers" \in failed,
     readLine |-> IF "status" \in failed THEN f.readLine ELSE <<>>,
     stateLine |-> IF "status" \in failed THEN f.stateLine ELSE <<>>,
     idLine |-> IF "status" \in failed THEN f.idLine ELSE <<>>,
     dateLine |-> IF "status" \in failed THEN f.dateLine ELSE <<>>,
     nAttach |-> IF "attachments" \in failed THEN f.nAttach ELSE 0]

\* ofono_mms_message.py:56: the tokens whose files have self.uuid in their
\* name. A token is the 36 characters str(uuid4()) turns into, so a name
\* holds the token only when it is the name of one of its own files.
matching_files(fs, uuid) ==
    {u \in 1..Len(fs) : (\E k \in FileKinds : Has(fs[u], k)) /\ u = uuid}

\* list.remove of the first entry the loop of main.py:246-249 meets
RemoveFirst(msgs, object_path) ==
    LET hits == {i \in 1..Len(msgs) : msgs[i].path = object_path} IN
    IF hits = {} THEN msgs
    ELSE LET first == CHOOSE i \in hits : \A j \in hits : i <= j IN
         [i \in 1..(Len(msgs) - 1) |-> IF i < first THEN msgs[i] ELSE msgs[i + 1]]

\* A callback that leaves the entry on the list of the service
delete_mms_message_listed(bus, msgs, sigs, uuid) ==
    [bus |-> unexport(bus, APath(ObjectPath(uuid))).bus,
     messages |-> msgs,
     removed |-> Append(sigs, ObjectPath(uuid))]

\* main.py:242-251
delete_mms_message(bus, msgs, sigs, uuid) ==
    LET object_path == ObjectPath(uuid) IN
    [bus |-> unexport(bus, APath(object_path)).bus,
     messages |-> RemoveFirst(msgs, object_path),
     removed |-> Append(sigs, object_path)]

\* ofono_mms_message.py:54-66: Delete on the object exported for uuid. The
\* files are listed, the callback runs, and then each listed file is
\* removed; a removal that raises OSError is logged and the loop goes on
\* with the next file, so the files of the kinds in failed stay
Delete(uuid, failed) ==
    /\ Len(removed) < MaxDeletes
    /\ \E x \in exports : x.bus = "session" /\ x.path = ObjectPath(uuid)
    /\ LET matching == matching_files(files, uuid)
           d == delete_mms_message(exports, messages, removed, uuid)
       IN  /\ exports' = d.bus
           /\ messages' = d.messages
           /\ removed' = d.removed
           /\ files' = [u \in 1..Len(files) |->
                           IF u \in matching THEN Remaining(files[u], failed)
                           ELSE files[u]]
    /\ deleted' = {d \in deleted : d.uuid # uuid}
                      \cup {[uuid |-> uuid, failed |-> {k \in failed : Has(files[uuid], k)}]}
    /\ markedRead' = markedRead \ {uuid}
    /\ UNCHANGED <<daemonVars, cacheVars, connVars, ofono_mms_interfaces, modemGone, sim_props,
                   cm_tracked, cm_props, notifs, retry_queue, retry, published, run, scans,
                   sendVars>>

\* The text of a status file: the lines of ofono_mms_service.py:196-200
\* each end with a line break, the last line of the text
\* ofono_push_notification.py:229-233 writes does not
InfoLine == <<"[", "i", "n", "f", "o", "]">>
status_text(f) ==
    InfoLine \o <<"\n">> \o f.readLine \o <<"\n">> \o f.stateLine \o <<"\n">>
        \o f.idLine \o <<"\n">> \o f.dateLine
        \o (IF f.kind = "sent" THEN <<"\n">> ELSE <<>>)

\* ofono_mms_message.py:42-52: the read= and state= lines are replaced and
\* the lines are written from the start of the file, which is not truncated:
\* what the old text had beyond the length of the new one stays behind it
mark_read_file(f) ==
    LET old == status_text(f)
        new == status_text([f EXCEPT !.readLine = <<"r", "e", "a", "d", "=", "t", "r", "u", "e">>,
                                     !.stateLine = StateKey \o <<"r", "e", "a", "d">>])
        text == new \o SubSeq(old, Len(new) + 1, Len(old))
        lines == SplitAll(text, "\n")
    IN  [f EXCEPT !.readLine = lines[2], !.stateLine = lines[3],
                  !.idLine = lines[4], !.dateLine = lines[5]]

\* ofono_mms_message.py:35-52: MarkRead on the object exported for uuid; with
\* the status file gone open() raises after the property was set
MarkRead(uuid) ==
    /\ \E x \in exports : x.bus = "session" /\ x.path = ObjectPath(uuid)
    /\ markedRead' = markedRead \cup {uuid}
    /\ files' = IF files[uuid].kind = "none" THEN files
                ELSE [files EXCEPT ![uuid] = mark_read_file(@)]
    /\ UNCHANGED <<daemonVars, cacheVars, connVars, ofono_mms_interfaces, exports, messages,
                   removed, deleted, modemGone, sim_props, cm_tracked, cm_props, notifs,
                   retry_queue, retry, published, run, scans, sendVars>>

(***************************************************************************)
(* CachedClient of ofono.py: the cache of object proxies and interface     *)
(* handles, one dictionary keyed by hash values.                           *)
(***************************************************************************)
MaxLookups == 4     \* get_interface calls in a run

\* The object paths and interface names looked up. "/a" with "bx.y" and
\* "/ab" with "x.y" concatenate to the same text; the object at neither path
\* implements "n.o".
CachePaths == {<<"/", "a">>, <<"/", "a", "b">>}
CacheInterfaces == {<<"b", "x", ".", "y">>, <<"x", ".", "y">>, <<"n", ".", "o">>}
Introspection == <<"o", "f", "o", "n", "o">>
CacheKeys == CachePaths \X CacheInterfaces

\* The strings get_interface hashes, in some order
Hashed ==
    LET S == {Introspection} \cup CachePaths
             \cup {k[1] \o k[2] : k \in CacheKeys}
        RECURSIVE Enum(_)
        Enum(T) == IF T = {} THEN <<>>
                   ELSE LET x == CHOOSE y \in T : TRUE IN <<x>> \o Enum(T \ {x})
    IN  Enum(S)

\* hash(text): an integer, the same for equal strings and, for the strings of
\* the model, different for different ones
hash(text) == CHOOSE i \in 1..Len(Hashed) : Hashed[i] = text

\* What the dictionary holds at a key
Missing == [kind |-> "missing", path |-> <<>>, iface |-> <<>>]
NoneEntry == [kind |-> "None", path |-> <<>>, iface |-> <<>>]
Document == [kind |-> "document", path |-> <<>>, iface |-> <<>>]
ProxyObject(path) == [kind |-> "proxy", path |-> path, iface |-> <<>>]
Handle(path, iface) == [kind |-> "interface", path |-> path, iface |-> iface]

\* proxy_object.get_interface(interface): the handle, or an exception for an
\* interface the object does not have and for an entry that is no proxy
\* object at all
Implemented(interface) == interface # <<"n", ".", "o">>
resolve(entry, interface) ==
    IF entry.kind = "proxy" /\ Implemented(interface)
    THEN [raised |-> FALSE, value |-> Handle(entry.path, interface)]
    ELSE [raised |-> TRUE, value |-> NoneEntry]

\* A get_interface that looks nothing up in the cache
get_interface_uncached(c, introspection, path, interface) ==
    LET path_hashed == hash(path)
        interface_hashed == hash(path \o interface)
        c1 == [c EXCEPT ![path_hashed] = ProxyObject(path)]
        r == resolve(c1[path_hashed], interface)
        c2 == [c1 EXCEPT ![interface_hashed] = r.value]
    IN  [cache |-> c2, ret |-> c2[interface_hashed], acquired |-> TRUE,
         resolved |-> TRUE, failed |-> r.raised]

\* A get_interface that does not remember an interface it could not resolve
get_interface_forgetful(c, introspection, path, interface) ==
    LET path_hashed == hash(path)
        interface_hashed == hash(path \o interface)
        hit == c[interface_hashed].kind # "missing"
        acquire == ~hit /\ c[path_hashed].kind = "missing"
        c1 == IF acquire THEN [c EXCEPT ![path_hashed] = ProxyObject(path)] ELSE c
        r == resolve(c1[path_hashed], interface)
        c2 == IF hit \/ r.raised THEN c1 ELSE [c1 EXCEPT ![interface_hashed] = r.value]
    IN  [cache |-> c2, ret |-> IF hit THEN c[interface_hashed] ELSE r.value,
         acquired |-> acquire, resolved |-> ~hit, failed |-> ~hit /\ r.raised]

\* ofono.py:48-61: the cache after the call, what the call returns, and
\* whether it acquired the proxy object, asked it for the interface, and
\* failed to get it
get_interface(c, introspection, path, interface) ==
    LET path_hashed == hash(path)
        interface_hashed == hash(path \o interface)
        hit == c[interface_hashed].kind # "missing"
        acquire == ~hit /\ c[path_hashed].kind = "missing"
        c1 == IF acquire THEN [c EXCEPT ![path_hashed] = ProxyObject(path)] ELSE c
        r == resolve(c1[path_hashed], interface)
        c2 == IF hit THEN c1 ELSE [c1 EXCEPT ![interface_hashed] = r.value]
    IN  [cache |-> c2, ret |-> c2[interface_hashed], acquired |-> acquire,
         resolved |-> ~hit, failed |-> ~hit /\ r.raised]

NoLookups == [calls |-> 0, resolutions |-> 0, failed |-> FALSE,
              first |-> Missing, same |-> TRUE, noneSince |-> TRUE]

\* ofono.py:30-46: the cache after __init__ holds the introspection document
CacheIdle ==
    /\ cache = [i \in 1..Len(Hashed) |->
                   IF i = hash(Introspection) THEN Document ELSE Missing]
    /\ acquired = [p \in CachePaths |-> 0]
    /\ lookups = [k \in CacheKeys |-> NoLookups]

\* client[introspection][path][interface], ofono.py:63-76 and 10-14
GetItem(path, interface) ==
    /\ \A k \in CacheKeys : lookups[k].calls < MaxLookups
    /\ LET r == get_interface(cache, Introspection, path, interface)
           h == lookups[<<path, interface>>]
       IN  /\ cache' = r.cache
           /\ acquired' = [acquired EXCEPT ![path] = @ + (IF r.acquired THEN 1 ELSE 0)]
           /\ lookups' = [lookups EXCEPT ![<<path, interface>>] =
                  [calls |-> h.calls + 1,
                   resolutions |-> h.resolutions + (IF r.resolved THEN 1 ELSE 0),
                   failed |-> h.failed \/ r.failed,
                   first |-> IF h.calls = 0 THEN r.ret ELSE h.first,
                   same |-> h.same /\ (h.calls = 0 \/ r.ret = h.first),
                   noneSince |-> h.noneSince
                                 /\ ((h.failed \/ r.failed) => r.ret = NoneEntry)]]
    /\ UNCHANGED <<daemonVars, connVars, pushVars, sendVars, svcVars>>

(***************************************************************************)
(* The contexts of the ConnectionManager: the context the manager          *)
(* activates, the one the push agent fetches through and the one the modem *)
(* manager settings are taken from.                                        *)
(***************************************************************************)
\* The Type of a context; a context without the key counts as ''
ContextTypes == {<<"m", "m", "s">>, <<"M", "M", "S">>,
                 <<"i", "n", "t", "e", "r", "n", "e", "t">>, <<>>}
ContextSettings == {
    [AccessPointName |-> "mms.a", MessageProxy |-> <<"1", "0", ".", "1", ":", "8", "0">>,
     MessageCenter |-> "http://mmsc.a"],
    [AccessPointName |-> "mms.b", MessageProxy |-> <<"1", "0", ".", "2", ":", "8", "0">>,
     MessageCenter |-> "http://mmsc.b"]}

\* The answers of call_get_contexts: ctx[0] is the path, ctx[1] the properties
ContextLists ==
    UNION {{[i \in 1..n |-> [path |-> i, Type |-> f[i][1],
                             AccessPointName |-> f[i][2].AccessPointName,
                             MessageProxy |-> f[i][2].MessageProxy,
                             MessageCenter |-> f[i][2].MessageCenter,
                             Active |-> FALSE]] :
              f \in [1..n -> ContextTypes \X ContextSettings]} : n \in 0..MaxContexts}

\* main.py:273-278: the loop stops at the first context of type mms, whose
\* path (0 for none) is the one call_set_property goes to; when there is
\* none the function falls off its end and returns None
RECURSIVE activate_loop(_, _)
activate_loop(ctxs, i) ==
    IF i > Len(ctxs) THEN 0
    ELSE IF IsMms(ctxs[i]) THEN i
    ELSE activate_loop(ctxs, i + 1)

\* ofono_push_notification.py:273-281: the loop goes through every context
RECURSIVE proxy_loop(_, _, _)
proxy_loop(ctxs, i, proxy) ==
    IF i > Len(ctxs) THEN proxy
    ELSE proxy_loop(ctxs, i + 1, IF IsMms(ctxs[i]) THEN ctxs[i].MessageProxy ELSE proxy)

ConnIdle ==
    /\ contexts = <<>>
    /\ activated = 0
    /\ fetch_proxy = <<>>
    /\ mm_props = DefaultProps
    /\ connCalls = {}
    /\ agent_copied = FALSE

\* A coroutine that waits for an answer of oFono takes the next free slot of
\* task, and gives it back when it is over
Awaits(fn, pc, ctx) ==
    /\ FreeTasks # {}
    /\ task' = [task EXCEPT ![NextFree(FreeTasks)] =
                   [NoTask EXCEPT !.fn = fn, !.pc = pc, !.ctx = ctx]]

Over(t) == task' = [task EXCEPT ![t] = NoTask]

\* main.py:271-273: activate_mms_context is called, as one round of
\* force_activate_context calls it. Without the ConnectionManager handle the
\* KeyError is caught (main.py:280-282) and the call returns False;
\* otherwise it waits for the contexts
ActivateMmsContext ==
    /\ IF cm_tracked THEN Awaits("activate_mms_context", "get_contexts", 0)
       ELSE UNCHANGED task
    /\ UNCHANGED <<envVars, presVars, mgrVars, findVars, ifVars, ctxSubs, lockVars,
                   ifTasks, serviceAdded, histVars>>
    /\ UNCHANGED <<cacheVars, connVars, pushVars, sendVars, svcVars>>

\* main.py:273-278 and 280-282: call_get_contexts answered (ok) and the call
\* goes on to call_set_property on the first MMS context, or returns None
\* when there is none; or it failed with a DBusError, which is caught, and
\* the call returns False
ActivateContextsReply(t, ok) ==
    /\ task[t].fn = "activate_mms_context" /\ task[t].pc = "get_contexts"
    /\ IF ok /\ activate_loop(contexts, 1) # 0
       THEN task' = [task EXCEPT ![t] = [@ EXCEPT !.pc = "set_property",
                                                  !.ctx = activate_loop(contexts, 1)]]
       ELSE Over(t)
    /\ UNCHANGED <<envVars, presVars, mgrVars, findVars, ifVars, ctxSubs, lockVars,
                   ifTasks, serviceAdded, histVars>>
    /\ UNCHANGED <<cacheVars, connVars, pushVars, sendVars, svcVars>>

\* main.py:278-282: call_set_property answered (ok): the context is active
\* and the call returns True; or it failed with a DBusError and the call
\* returns False
ActivateSetReply(t, ok) ==
    /\ task[t].fn = "activate_mms_context" /\ task[t].pc = "set_property"
    /\ Over(t)
    /\ IF ok
       THEN /\ contexts' = [contexts EXCEPT ![task[t].ctx].Active = TRUE]
            /\ activated' = task[t].ctx
            /\ connCalls' = connCalls \cup {"activate"}
       ELSE UNCHANGED <<contexts, activated, connCalls>>
    /\ UNCHANGED <<envVars, presVars, mgrVars, findVars, ifVars, ctxSubs, lockVars,
                   ifTasks, serviceAdded, histVars>>
    /\ UNCHANGED <<cacheVars, fetch_proxy, agentVars, mm_props, pushVars, sendVars,
                   svcVars>>

\* ofono_push_notification.py:273-276: get_mms_context_info is called, as
\* ReceiveNotification and the retry task call it. Without the
\* ConnectionManager handle it returns '' at once
GetMmsContextInfo ==
    /\ IF cm_tracked
       THEN /\ Awaits("get_mms_context_info", "get_contexts", 0)
            /\ UNCHANGED fetch_proxy
       ELSE /\ fetch_proxy' = <<>>
            /\ UNCHANGED task
    /\ UNCHANGED <<envVars, presVars, mgrVars, findVars, ifVars, ctxSubs, lockVars,
                   ifTasks, serviceAdded, histVars>>
    /\ UNCHANGED <<cacheVars, contexts, activated, connCalls, agentVars, mm_props,
                   pushVars, sendVars, svcVars>>

\* ofono_push_notification.py:276-281: call_get_contexts answered (ok) and
\* the call returns the proxy the loop ended with, or it failed with a
\* DBusError, which the call lets through to its caller
MmsContextInfoReply(t, ok) ==
    /\ task[t].fn = "get_mms_context_info" /\ task[t].pc = "get_contexts"
    /\ Over(t)
    /\ IF ok
       THEN /\ fetch_proxy' = proxy_loop(contexts, 1, <<>>)
            /\ connCalls' = connCalls \cup {"fetch"}
       ELSE UNCHANGED <<fetch_proxy, connCalls>>
    /\ UNCHANGED <<envVars, presVars, mgrVars, findVars, ifVars, ctxSubs, lockVars,
                   ifTasks, serviceAdded, histVars>>
    /\ UNCHANGED <<cacheVars, contexts, activated, agentVars, mm_props, pushVars,
                   sendVars, svcVars>>

\* ofono_mms_modemmanager.py:35-49: set_props of the settings object up to
\* its await, called by fn. The numbers are written; with no
\* ConnectionManager entry in the property map of the object the call is
\* over (lines 60-61); with the entry and no handle in ofono_interfaces line
\* 49 raises KeyError; otherwise the call waits for the contexts
set_props_start(fn, sim, has_props, has_handle) ==
    /\ mm_props' = set_props_numbers(mm_props, sim)
    /\ IF has_props /\ has_handle THEN Awaits(fn, "get_contexts", 0)
       ELSE UNCHANGED task

\* main.py:360-397: add_ofono_interface of an interface other than the two
\* of the maps here, from the answer of call_get_properties on. With the
\* properties read (lines 360-369), or a DBusError in their place (lines
\* 376-383), the agent gets a copy of the map of the manager (copies); an
\* AttributeError (line 390) leaves the agent what it has. Then the settings
\* object sets its props (lines 396-397)
SetProps(copies) ==
    /\ set_props_start("set_props", sim_props, cm_props, cm_tracked)
    /\ IF copies
       THEN /\ sim_props_agent' = sim_props
            /\ agent_copied' = TRUE
       ELSE UNCHANGED agentVars
    /\ UNCHANGED <<envVars, presVars, mgrVars, findVars, ifVars, ctxSubs, lockVars,
                   ifTasks, serviceAdded, histVars>>
    /\ UNCHANGED <<cacheVars, contexts, activated, fetch_proxy, connCalls, pushVars,
                   sendVars, svcVars>>

\* ofono_mms_modemmanager.py:49-61: call_get_contexts of set_props answered
\* (ok) and the loop writes the settings of every MMS context in turn, or it
\* failed with a DBusError, which set_props and its caller let through.
\* main.py:415-416: when set_props returned to remove_ofono_interface, the
\* agent gets a copy of the map of the manager as it is by then; a
\* DBusError ends remove_ofono_interface before these lines
SetPropsContextsReply(t, ok) ==
    /\ task[t].fn \in {"set_props", "remove_ofono_interface"}
    /\ task[t].pc = "get_contexts"
    /\ Over(t)
    /\ IF ok
       THEN /\ mm_props' = settings_loop(contexts, 1, mm_props)
            /\ connCalls' = connCalls \cup {"set_props"}
       ELSE UNCHANGED <<mm_props, connCalls>>
    /\ IF ok /\ task[t].fn = "remove_ofono_interface"
       THEN /\ sim_props_agent' = sim_props
            /\ agent_copied' = TRUE
       ELSE UNCHANGED agentVars
    /\ UNCHANGED <<envVars, presVars, mgrVars, findVars, ifVars, ctxSubs, lockVars,
                   ifTasks, serviceAdded, histVars>>
    /\ UNCHANGED <<cacheVars, contexts, activated, fetch_proxy, pushVars, sendVars, svcVars>>

\* main.py:399-416: remove_ofono_interface(iface) with the service objects
\* there, up to the await inside set_props or, when set_props does not wait,
\* to its end. The entry leaves each map of the manager that has it (lines
\* 401-405), which an agent that still holds the map of the manager sees at
\* once; the settings object gets the copy of the property map and runs
\* set_props on the props it has (lines 411-413). The agent gets its copy
\* (lines 415-416) after set_props returned: here when the map has no
\* ConnectionManager entry; with the entry and no handle line 49 of set_props
\* raises KeyError and the lines are not reached; with both the call waits
RemoveInterface(iface) ==
    /\ \E sim \in {IF iface = SIM
                   THEN [present |-> FALSE, hasNumbers |-> FALSE, numbers |-> <<>>]
                   ELSE sim_props} :
          /\ sim_props' = sim
          /\ cm_tracked' = (cm_tracked /\ iface # CM)
          /\ cm_props' = (cm_props /\ iface # CM)
          /\ set_props_start("remove_ofono_interface", sim, cm_props /\ iface # CM,
                             cm_tracked /\ iface # CM)
          /\ IF ~(cm_props /\ iface # CM)
             THEN /\ sim_props_agent' = sim
                  /\ agent_copied' = TRUE
             ELSE /\ sim_props_agent' = IF agent_copied THEN sim_props_agent ELSE sim
                  /\ UNCHANGED agent_copied
    /\ connCalls' = connCalls \cup {"remove"}
    /\ UNCHANGED <<envVars, presVars, mgrVars, findVars, ifVars, ctxSubs, lockVars,
                   ifTasks, serviceAdded, histVars>>
    /\ UNCHANGED <<cacheVars, sendVars, svcVars, contexts, activated,
                   fetch_proxy, notifs, retry_queue, retry, files, published, run, scans>>

(***************************************************************************)
(* The specifications.                                                     *)
(***************************************************************************)
\* No agent at work: the maps without the two interfaces, nothing queued or
\* published
PushIdle ==
    /\ sim_props = [present |-> FALSE, hasNumbers |-> FALSE, numbers |-> <<>>]
    /\ sim_props_agent = sim_props
    /\ cm_tracked = FALSE
    /\ cm_props = FALSE
    /\ notifs = <<>>
    /\ retry_queue = <<>>
    /\ retry = [pc |-> "get", item |-> 0]
    /\ published = <<>>
    /\ run = 0
    /\ scans = {}

SendIdle ==
    /\ sends = <<>>

\* What the storage directory holds when the daemon starts: nothing, or the
\* files of a message received in an earlier run
StoredAtStart ==
    {<<>>, <<process_mms_content(1, NormalBody, AddrOf(NumC), SentTime,
                                 [present |-> FALSE, hasNumbers |-> FALSE,
                                  numbers |-> <<>>], <<>>).file>>}

Init ==
    /\ InitDaemon /\ NoServiceObjects /\ CacheIdle /\ ConnIdle /\ PushIdle /\ SendIdle
    /\ files \in StoredAtStart

\* The part of ConnIdle that is not the props of the settings object
ConnRestIdle ==
    /\ contexts = <<>>
    /\ activated = 0
    /\ fetch_proxy = <<>>
    /\ connCalls = {}
    /\ agent_copied = FALSE

\* The agent after __init__ (ofono_push_notification.py:21-36), the storage
\* directory empty
InitPush ==
    /\ InitDaemon /\ ServiceObjectsSet /\ ~ofonoUp /\ CacheIdle /\ ConnRestIdle
    /\ sim_props \in SimConfigs
    /\ sim_props_agent = sim_props
    /\ mm_props \in PropsBeside(sim_props)
    /\ cm_tracked \in BOOLEAN
    /\ cm_props = cm_tracked
    /\ notifs = <<>>
    /\ retry_queue = <<>>
    /\ retry = [pc |-> "get", item |-> 0]
    /\ files = <<>>
    /\ published = <<>>
    /\ run = 0
    /\ scans = {0}
    /\ SendIdle

\* The service after __init__ (ofono_mms_service.py:25-49)
InitSend ==
    /\ InitDaemon /\ ServiceObjectsSet /\ ~ofonoUp /\ CacheIdle /\ ConnRestIdle
    /\ sim_props \in {c \in SimConfigs : c.present = c.hasNumbers
                                         /\ (c.present => c.numbers # <<>>)}
    /\ sim_props_agent = sim_props
    /\ mm_props \in PropsBeside(sim_props)
    /\ cm_tracked = FALSE
    /\ cm_props = FALSE
    /\ notifs = <<>>
    /\ retry_queue = <<>>
    /\ retry = [pc |-> "get", item |-> 0]
    /\ files = <<>>
    /\ published = <<>>
    /\ run = 0
    /\ scans = {0}
    /\ SendIdle

\* The interfaces of Interfaces list L that get_interface has a handle for
Tracked(L) == {f \in Range(L) : InIntrospection(f)}

\* The manager after modem ril_0 was handed to export_new_modem with the
\* Interfaces Lold and a change of Interfaces to Lnew was delivered, its tasks
\* not yet run, oFono still there or gone since
InitIface ==
    /\ ofonoUp \in BOOLEAN
    /\ envModems = (IF ofonoUp THEN <<"ril_0">> ELSE <<>>)
    /\ ctxActive = TRUE
    /\ events = 0
    /\ presence = "done"
    /\ hasOwnerReply = TRUE
    /\ ofono_manager_interface = (IF ofonoUp THEN "set" ELSE "None")
    /\ managerSubs = 1
    /\ NoServiceObjects
    /\ modem_added_block = TRUE
    /\ ofono_modem_list = <<"ril_0">>
    /\ has_bus = FALSE
    /\ ofono_mms_objects = <<>>
    /\ ofono_proxy = "ril_0"
    /\ modemSubs = [m \in ModemIds |-> IF m = "ril_0" THEN 1 ELSE 0]
    /\ \E Lold \in IfaceLists, Lnew \in IfaceLists :
          /\ envIfaces = [m \in ModemIds |-> IF m = "ril_0" /\ ofonoUp THEN Lnew
                                              ELSE InitialInterfaces(m)]
          /\ ofono_props = Lnew
          /\ ofono_interfaces = TrackedItems(Lold, "ril_0")
          /\ ofono_interface_props = [i \in Ifaces |-> IF i \in Tracked(Lold)
                                                        THEN "fetched" ELSE "absent"]
          /\ ifaceSubs = [m \in ModemIds |-> [i \in Ifaces |->
                             IF m = "ril_0" /\ i \in Tracked(Lold) THEN 1 ELSE 0]]
          /\ ifTasks = ScheduledBy(ofono_interfaces, Lnew)
          /\ lastDelivered = (IF Lnew = Lold THEN <<"none">> ELSE Lnew)
    /\ ctxSubs = [p \in ContextPaths |-> 0]
    /\ lockHolder = 0
    /\ lockQ = <<>>
    /\ task = [t \in TaskIds |-> NoTask]
    /\ serviceAdded = 0
    /\ queuedExport = FALSE
    /\ rescheduled = 0
    /\ changed = {}
    /\ ofono_mms_interfaces = <<>>
    /\ exports = {ManagerObject}
    /\ messages = <<>>
    /\ removed = <<>>
    /\ deleted = {}
    /\ markedRead = {}
    /\ modemGone = {}
    /\ CacheIdle /\ ConnIdle
    /\ PushIdle /\ files = <<>> /\ SendIdle

\* The interface tasks and the signals around them
NextIface ==
    \/ \E i \in 1..MaxIfTasks : AddStart(i)
    \/ \E i \in 1..MaxIfTasks, ok \in BOOLEAN : AddPropsReply(i, ok)
    \/ \E i \in 1..MaxIfTasks : RemoveRun(i)
    \/ \E m \in ModemIds, f \in Ifaces : InterfacePropertyChanged(m, f)
    \/ \E m \in ModemIds, L \in IfaceLists : InterfacesChanged(m, L)
    \/ \E m \in ModemIds, name \in ModemProperties : ModemPropertyChanged(m, name)
    \/ \E m \in ModemIds : ModemAdded(m)
    \/ OfonoAppears
    \/ OfonoVanishes

SpecIface == InitIface /\ [][NextIface]_vars

\* The manager with two eligible modems listed after two discovery passes:
\* the first exported ril_0 (Interfaces SimManager and ConnectionManager),
\* ril_0 left, the second exported ril_1 (ConnectionManager and an interface
\* the introspection lacks), and ril_0 is listed again. Every export ended
\* at main.py:187; the handlers registered on ril_0 are still there
InitModems ==
    /\ ofonoUp = TRUE
    /\ envModems = <<"ril_1", "ril_0">>
    /\ envIfaces = [m \in ModemIds |-> InitialInterfaces(m)]
    /\ ctxActive = TRUE
    /\ events = 0
    /\ presence = "done"
    /\ hasOwnerReply = TRUE
    /\ ofono_manager_interface = "set"
    /\ managerSubs = 1
    /\ NoServiceObjects
    /\ modem_added_block = TRUE
    /\ ofono_modem_list = <<"ril_1">>
    /\ has_bus = FALSE
    /\ ofono_mms_objects = <<>>
    /\ ofono_proxy = "ril_1"
    /\ ofono_props = InitialInterfaces("ril_1")
    /\ ofono_interfaces = <<[key |-> SIM, handle |-> "ril_0"],
                            [key |-> CM, handle |-> "ril_1"],
                            [key |-> IMS, handle |-> "None"]>>
    /\ ofono_interface_props = [i \in Ifaces |->
                                   IF i \in {SIM, CM} THEN "fetched" ELSE "absent"]
    /\ modemSubs = [m \in ModemIds |-> IF m \in {"ril_0", "ril_1"} THEN 1 ELSE 0]
    /\ ifaceSubs = [m \in ModemIds |-> [i \in Ifaces |->
                       IF (m = "ril_0" /\ i \in {SIM, CM}) \/ (m = "ril_1" /\ i = CM)
                       THEN 1 ELSE 0]]
    /\ ctxSubs = [p \in ContextPaths |-> 0]
    /\ lockHolder = 0
    /\ lockQ = <<>>
    /\ task = [t \in TaskIds |-> [NoTask EXCEPT !.pc = "raised", !.exported = TRUE]]
    /\ ifTasks = <<>>
    /\ serviceAdded = 0
    /\ queuedExport = FALSE
    /\ lastDelivered = <<"none">>
    /\ rescheduled = 0
    /\ changed = {}
    /\ ofono_mms_interfaces = <<>>
    /\ exports = {ManagerObject}
    /\ messages = <<>>
    /\ removed = <<>>
    /\ deleted = {}
    /\ markedRead = {}
    /\ modemGone = {}
    /\ CacheIdle /\ ConnIdle
    /\ PushIdle /\ files = <<>> /\ SendIdle

\* The events of the two modems and the interface tasks they schedule
NextModems ==
    \/ \E m \in ModemIds, L \in IfaceLists : InterfacesChanged(m, L)
    \/ \E m \in ModemIds, name \in ModemProperties : ModemPropertyChanged(m, name)
    \/ \E m \in ModemIds, f \in Ifaces : InterfacePropertyChanged(m, f)
    \/ \E m \in ModemIds : ModemRemoved(m)
    \/ \E i \in 1..MaxIfTasks : AddStart(i)
    \/ \E i \in 1..MaxIfTasks, ok \in BOOLEAN : AddPropsReply(i, ok)
    \/ \E i \in 1..MaxIfTasks : RemoveRun(i)

SpecModems == InitModems /\ [][NextModems]_vars

\* The client on its own: lookups in any order
InitCache ==
    /\ InitDaemon /\ NoServiceObjects /\ ~ofonoUp
    /\ CacheIdle /\ ConnIdle /\ PushIdle /\ files = <<>> /\ SendIdle

NextCache == \E p \in CachePaths, i \in CacheInterfaces : GetItem(p, i)

SpecCache == InitCache /\ [][NextCache]_vars

Next ==
    \/ CheckPresenceStart
    \/ CheckPresenceReply
    \/ OfonoAppears
    \/ OfonoVanishes
    \/ \E m \in ModemIds : ModemAdded(m)
    \/ \E m \in ModemIds : ModemRemoved(m)
    \/ \E m \in ModemIds, L \in IfaceLists : InterfacesChanged(m, L)
    \/ \E m \in ModemIds, name \in ModemProperties : ModemPropertyChanged(m, name)
    \/ ContextDropped
    \/ GetServices
    \/ \E t \in TaskIds : FindStart(t)
    \/ \E t \in TaskIds : FindGranted(t)
    \/ \E t \in TaskIds : FindModemsError(t)
    \/ \E t \in TaskIds : FindModemsNone(t)
    \/ \E t \in TaskIds : FindModemsFound(t)
    \/ \E t \in TaskIds : FindSleepDone(t)
    \/ \E t \in TaskIds, ok \in BOOLEAN : ExportPropsReply(t, ok)
    \/ \E t \in TaskIds : ExportStart(t)
    \/ \E i \in 1..MaxIfTasks : AddStart(i)
    \/ \E i \in 1..MaxIfTasks, ok \in BOOLEAN : AddPropsReply(i, ok)
    \/ \E i \in 1..MaxIfTasks : RemoveRun(i)

Spec == Init /\ [][Next]_vars


\* The steps of the find_ofono_modems or export_new_modem call in slot t
TaskStep(t) ==
    \/ FindStart(t)
    \/ FindGranted(t)
    \/ FindModemsError(t)
    \/ FindModemsNone(t)
    \/ FindModemsFound(t)
    \/ FindSleepDone(t)
    \/ \E ok \in BOOLEAN : ExportPropsReply(t, ok)
    \/ ExportStart(t)

\* The daemon after construction, the storage directory empty: no step of
\* Next reads the directory
InitLive == Init /\ files = <<>>

\* The events that start, hold up or end a pass. The tasks of the interface
\* tracker (main.py:306-416) take no part in the discovery lock and are left
\* to Spec.
NextLive ==
    \/ CheckPresenceStart
    \/ CheckPresenceReply
    \/ OfonoAppears
    \/ OfonoVanishes
    \/ \E m \in ModemIds : ModemAdded(m)
    \/ \E m \in ModemIds : ModemRemoved(m)
    \/ \E m \in ModemIds, name \in ModemProperties : ModemPropertyChanged(m, name)
    \/ ContextDropped
    \/ GetServices
    \/ \E t \in TaskIds : TaskStep(t)

\* The event loop runs a task that can go on: an answer of oFono arrives, a
\* sleep ends
SpecLive ==
    /\ InitLive
    /\ [][NextLive]_vars
    /\ WF_vars(\E t \in TaskIds : TaskStep(t))

NextPush ==
    \/ \E k \in Notifications : ReceiveNotification(k)
    \/ \E n \in 1..MaxNotifs, ok \in BOOLEAN : RecvContextsReply(n, ok)
    \/ \E n \in 1..MaxNotifs, o \in FetchOutcomes : RecvFetched(n, o)
    \/ RetryGet
    \/ \E ok \in BOOLEAN : RetryContextsReply(ok)
    \/ \E o \in FetchOutcomes : RetryFetched(o)
    \/ RetrySleepDone
    \/ Restart
    \/ \E order \in Orders(Len(files)) : ExportOldMessages(order)

SpecPush == InitPush /\ [][NextPush]_vars

NextSend ==
    \/ \E r \in RecipientLists, a \in AttachmentLists, id \in RandomStrings :
          SendMessage(r, a, id)
    \/ \E r \in RecipientLists, a \in AttachmentLists, id \in RandomStrings :
          SendMessage2(r, a, id)
    \/ \E i \in 1..MaxSends : SendPassStart(i)
    \/ \E i \in 1..MaxSends : SendPassProxy(i)
    \/ \E i \in 1..MaxSends, g \in GatewayAnswers : SendAttempt(i, g)
    \/ \E i \in 1..MaxSends : SendSleepDone(i)
    \/ \E o \in GatewayOptions : ChangeAllSettings(o)

\* The service and the agent of a modem whose settings object has read the
\* SIM entry
InitSendLive == InitSend /\ mm_props = set_props_numbers(DefaultProps, sim_props)

\* Messages are sent while a client changes the settings send_message reads
\* (through ChangeAllSettings; ChangeSettings leaves the same props). No step
\* reads the SIM entry, so the props are taken as set_props left them.
SpecSend == InitSendLive /\ [][NextSend]_vars

\* The threads of messages sent without attachments
NextSendLive ==
    \/ \E r \in RecipientLists, id \in RandomStrings : SendMessage(r, <<>>, id)
    \/ \E i \in 1..MaxSends : SendPassStart(i)
    \/ \E i \in 1..MaxSends : SendPassProxy(i)
    \/ \E i \in 1..MaxSends, g \in GatewayAnswers : SendAttempt(i, g)
    \/ \E i \in 1..MaxSends : SendSleepDone(i)
    \/ \E o \in GatewayOptions : ChangeAllSettings(o)

\* The worker thread runs: a sleep ends and an attempt comes to an end
SpecSendLive ==
    /\ InitSendLive
    /\ [][NextSendLive]_vars
    /\ \A i \in 1..MaxSends : WF_vars(SendSleepDone(i))

\* The service and the agent of a modem whose SIM has a number, the storage
\* directory empty
InitDelete == InitSend /\ sim_props.numbers # <<>> /\ mm_props.ModemNumber # <<>>

\* Messages are sent to one recipient without attachments, a notification
\* arrives whose body decodes to a message with a SMIL part, messages are
\* deleted and the daemon is started again
NextDelete ==
    \/ \E id \in RandomStrings : SendMessage(<<<<"5", "-", "2">>>>, <<>>, id)
    \/ ReceiveNotification(MkNotif(TRUE, AddrOf(NumC), SentTime, NormalBody))
    \/ \E n \in 1..MaxNotifs, o \in FetchOutcomes : RecvFetched(n, o)
    \/ Restart
    \/ \E order \in ScanOrders(Len(files)) : ExportOldMessages(order)
    \/ \E u \in 1..Len(files), failed \in RemovalFailures : Delete(u, failed)

SpecDelete == InitDelete /\ [][NextDelete]_vars

\* The same with MarkRead called on the messages
NextRead ==
    \/ \E id \in RandomStrings : SendMessage(<<<<"5", "-", "2">>>>, <<>>, id)
    \/ ReceiveNotification(MkNotif(TRUE, AddrOf(NumC), SentTime, NormalBody))
    \/ \E n \in 1..MaxNotifs, o \in FetchOutcomes : RecvFetched(n, o)
    \/ Restart
    \/ \E order \in ScanOrders(Len(files)) : ExportOldMessages(order)
    \/ \E u \in 1..Len(files), failed \in RemovalFailures : Delete(u, failed)
    \/ \E u \in 1..Len(files) : MarkRead(u)

SpecRead == InitDelete /\ [][NextRead]_vars

\* The three objects of a modem whose ConnectionManager lists the contexts
InitConn ==
    /\ InitDaemon /\ ServiceObjectsSet /\ ~ofonoUp /\ CacheIdle /\ SendIdle
    /\ sim_props \in SimConfigs
    /\ sim_props_agent = sim_props
    /\ cm_tracked \in BOOLEAN
    /\ cm_props \in BOOLEAN
    /\ notifs = <<>>
    /\ retry_queue = <<>>
    /\ retry = [pc |-> "get", item |-> 0]
    /\ files = <<>>
    /\ published = <<>>
    /\ run = 0
    /\ scans = {0}
    /\ contexts \in ContextLists
    /\ activated = 0
    /\ fetch_proxy = <<>>
    /\ mm_props = DefaultProps
    /\ connCalls = {}
    /\ agent_copied = FALSE

NextConn ==
    \/ ActivateMmsContext
    \/ \E t \in TaskIds, ok \in BOOLEAN : ActivateContextsReply(t, ok)
    \/ \E t \in TaskIds, ok \in BOOLEAN : ActivateSetReply(t, ok)
    \/ GetMmsContextInfo
    \/ \E t \in TaskIds, ok \in BOOLEAN : MmsContextInfoReply(t, ok)
    \/ \E copies \in BOOLEAN : SetProps(copies)
    \/ \E t \in TaskIds, ok \in BOOLEAN : SetPropsContextsReply(t, ok)
    \/ \E iface \in Ifaces : RemoveInterface(iface)
    \/ \E o \in NumberOptions : o.key = "ModemNumber" /\ ChangeSettings(o)

SpecConn == InitConn /\ [][NextConn]_vars

\* A body whose only part is a text part
TextOnlyBody == MkBody(AddrOf(NumA), AddrOf(NumC), "false", <<DataPart(TextType, 2)>>)
QueuedKinds == {MkNotif(TRUE, AddrOf(NumC), SentTime, NormalBody),
                MkNotif(TRUE, AddrOf(NumC), SentTime, TextOnlyBody)}

\* ofono_push_notification.py:99-105: a ReceiveNotification call whose fetch
\* failed and that put its notification on the retry queue
Queued(k) ==
    [kind |-> k, sender |-> Sanitize(k.from), fails |-> 1, recvFailed |-> TRUE,
     fetched |-> FALSE, pc |-> "returned"]

\* The agent with notifications waiting to be retried, in order of arrival
InitRetry ==
    /\ InitDaemon /\ ServiceObjectsSet /\ ~ofonoUp /\ CacheIdle /\ ConnRestIdle /\ SendIdle
    /\ sim_props = [present |-> TRUE, hasNumbers |-> TRUE, numbers |-> <<NumA>>]
    /\ sim_props_agent = sim_props
    /\ mm_props \in PropsBeside(sim_props)
    /\ cm_tracked \in BOOLEAN
    /\ cm_props = cm_tracked
    /\ notifs \in [1..MaxQueued -> {Queued(k) : k \in QueuedKinds}]
    /\ retry_queue = [i \in 1..MaxQueued |-> i]
    /\ retry = [pc |-> "get", item |-> 0]
    /\ files = <<>>
    /\ published = <<>>
    /\ run = 0
    /\ scans = {0}

NextRetry ==
    \/ RetryGet
    \/ \E ok \in BOOLEAN : RetryContextsReply(ok)
    \/ \E o \in FetchOutcomes : RetryFetched(o)
    \/ RetrySleepDone

SpecRetry == InitRetry /\ [][NextRetry]_vars

\* The event loop runs the retry task whenever it can go on: a bus call is
\* answered, a request comes to an end, a sleep is over
SpecRetryLive ==
    /\ SpecRetry
    /\ WF_vars(RetryGet)
    /\ WF_vars(\E ok \in BOOLEAN : RetryContextsReply(ok))
    /\ WF_vars(\E o \in FetchOutcomes : RetryFetched(o))
    /\ WF_vars(RetrySleepDone)

(***************************************************************************)
(* The claims.                                                             *)
(***************************************************************************)
PublishedFor(n) == {i \in 1..Len(published) : published[i].notif = n}

\* C1: every notification whose fetch succeeded, at once or after K failed
\* attempts, has exactly one message published for it and is no longer in
\* the retry queue.
C1_FetchedPublishesOnce ==
    \A n \in 1..Len(notifs) :
        notifs[n].fetched =>
            /\ Cardinality(PublishedFor(n)) = 1
            /\ n \notin Range(retry_queue)

\* C2: once export_new_modem has ended for a modem whose ConnectionManager is
\* tracked, a context that turns inactive finds context_active_changed
\* registered to restart force_activate_context.
C2_ContextWatched ==
    ((\E t \in TaskIds : task[t].exported /\ task[t].pc \in {"done", "raised"})
        /\ Lookup(ofono_interfaces, CM) \notin {"absent", "None"}
        /\ ~ctxActive)
    => \E p \in ContextPaths : ctxSubs[p] > 0

\* C3: of two find_ofono_modems calls, one of which had to queue behind the
\* other, at most one runs a pass of modem export.
C3_SinglePass == ~queuedExport

\* C4: delivering the same Interfaces list to ofono_changed a second time
\* schedules no further add_ofono_interface or remove_ofono_interface.
C4_SecondDeliverySchedulesNothing == rescheduled = 0

SendIds == 1..MaxSends

\* C5: send_message goes on until an attempt goes through: what ends the
\* loop is the first attempt that did not raise, every attempt that raised
\* is followed by the sleep, and the sleep by another attempt.
C5_RetriesUntilSuccess ==
    /\ [](\A i \in SendIds : i <= Len(sends) =>
            /\ sends[i].pc = "done" => sends[i].attempts = sends[i].fails + 1
            /\ sends[i].pc \in {"try", "proxy", "connect", "sleep"}
                   => sends[i].attempts = sends[i].fails)
    /\ [][\A i \in SendIds : (i <= Len(sends) /\ sends'[i].fails > sends[i].fails)
            => sends'[i].pc = "sleep"]_vars
    /\ \A i \in SendIds :
          (i <= Len(sends) /\ sends[i].pc = "sleep")
              ~> (i <= Len(sends) /\ sends[i].pc = "try")

\* A message went out after attempts that had failed
C5_Witness ==
    \E i \in 1..Len(sends) : sends[i].pc = "done" /\ sends[i].fails >= 1

\* C6: when the fetch of ReceiveNotification fails, the step that sees the
\* failure puts exactly one entry for the notification on the retry queue,
\* publishes nothing, and the call returns without raising.
C6_FailedFetchQueuesOnce ==
    [][\A n \in 1..MaxNotifs :
          (n <= Len(notifs) /\ notifs[n].pc = "fetch" /\ notifs'[n].recvFailed)
          => /\ retry_queue' = Append(retry_queue, n)
             /\ published' = published
             /\ files' = files
             /\ notifs'[n].pc = "returned"]_vars

\* The fetch of a ReceiveNotification call failed; its entry waits in the queue
C6_Witness ==
    \E n \in 1..Len(notifs) :
        /\ notifs[n].recvFailed /\ notifs[n].pc = "returned"
        /\ n \in Range(retry_queue) /\ PublishedFor(n) = {}

\* The own subscriber number as the SimManager entry gives it
OwnNumber(sim) ==
    IF sim.present /\ sim.hasNumbers /\ sim.numbers # <<>> THEN sim.numbers[1] ELSE <<>>

\* The received messages process_mms_content published while the own
\* subscriber number is known
ReceivedWithOwnNumber ==
    {i \in 1..Len(published) :
        published[i].notif # 0 /\ OwnNumber(sim_props_agent) # <<>>}

ToNumber(i) == SplitFirst(notifs[published[i].notif].kind.body.to, "/")

\* C7: with own number A, To = B and From = C the Recipients of the message
\* process_mms_content published are [A, B, C] when A # B and empty when
\* A = B.
C7_RecipientsAsStated ==
    \A i \in ReceivedWithOwnNumber :
        LET A == OwnNumber(sim_props_agent)
            B == ToNumber(i)
            C == published[i].msg.Sender
        IN  published[i].msg.Recipients = IF A # B THEN <<A, B, C>> ELSE <<>>

Cids(atts) == [k \in 1..Len(atts) |-> atts[k].cid]

\* C8: once export_old_messages has run in the run after the one in which
\* process_mms_content published a message, the message is published again,
\* with the same sender, date, SMIL text and attachment content-id
\* references.
C8_RehydrationReproduces ==
    \A i \in 1..Len(published) :
        (published[i].notif # 0 /\ published[i].run < run
           /\ published[i].run + 1 \in scans) =>
            \E j \in 1..Len(published) :
                /\ published[j].notif = 0 /\ published[j].run = published[i].run + 1
                /\ published[j].msg.path = published[i].msg.path
                /\ published[j].msg.Sender = published[i].msg.Sender
                /\ published[j].msg.Date = published[i].msg.Date
                /\ published[j].msg.Smil = published[i].msg.Smil
                /\ Cids(published[j].msg.Attachments) = Cids(published[i].msg.Attachments)

SingleSends == {i \in 1..Len(sends) : sends[i].single /\ ~sends[i].raised}

\* C9: SendMessage with one recipient and no attachments leaves a status
\* file with state=sent and a non-empty id and one published message; when
\* the gateway takes the message at the first attempt there is one attempt
\* only; and the MMSC and the proxy an attempt is addressed to are a pair
\* the settings held at some moment since the attempt began to read them.
C9_SendPersistsAndTransmitsOnce ==
    /\ [](\A i \in SingleSends :
            LET u == sends[i].uuid IN
            /\ Strip(SplitSecond(files[u].stateLine, "=")) = Sent
            /\ SplitSecond(files[u].idLine, "=") # <<>>
            /\ Cardinality({k \in 1..Len(published) :
                              /\ published[k].msg.path = ObjectPath(u)
                              /\ published[k].msg.Status = Sent}) = 1
            /\ (sends[i].attempts >= 1 /\ sends[i].fails = 0)
                   => (sends[i].pc = "done" /\ sends[i].attempts = 1))
    /\ [][\A i \in SingleSends :
            (sends[i].pc = "proxy" /\ sends'[i].pc = "connect")
                => \E p \in sends[i].held :
                      sends'[i].target = ResolveGateway([CarrierMMSC |-> sends[i].mmsc,
                                                         CarrierMMSProxy |-> p])]_vars

\* C10: what SendMessage returns is the object path of the message it
\* published, /org/ofono/mms/<uuid>.
C10_ReturnsObjectPath ==
    \A i \in 1..Len(sends) :
        ~sends[i].raised => sends[i].ret = ObjectPath(sends[i].uuid)

\* C11: for every SendMessage call the payload file and the status record
\* (read=false, state=sent) of the message are on disk before the first
\* transmission attempt for that message starts: a message whose thread is
\* queued has them (the payload with its recipients and Transaction-Id, the
\* status lines read=false and state=sent), in every state, the one an
\* attempt starts from among them.
Persisted(fs, t) ==
    /\ t.uuid \in 1..Len(fs)
    /\ fs[t.uuid].body.To # <<>>
    /\ fs[t.uuid].body.TransactionId # <<>>
    /\ fs[t.uuid].readLine = ReadKey \o FalseText
    /\ fs[t.uuid].stateLine = StateKey \o Sent

C11_PersistedBeforeAttempt ==
    \A i \in 1..Len(sends) : ~sends[i].raised => Persisted(files, sends[i])

C11_Witness ==
    \E i \in 1..Len(sends) :
        ~sends[i].raised /\ sends[i].attempts >= 1 /\ Persisted(files, sends[i])

\* C12: the bus name org.ofono.mms is requested once, at the first moment a
\* modem has been exported: once an invocation that carried out
\* export_new_modem for a modem has come to its end, the name has been
\* requested (has_bus is set, main.py:154-157).
C12_BusNameRequested ==
    \A t \in TaskIds :
        (task[t].exported /\ task[t].pc \in {"done", "raised"}) => has_bus

\* C13: after a modem-removed signal for path P no service object whose
\* recorded modem identity is P remains exported on the session bus.
C13_RemovedModemUnexported ==
    \A x \in exports : x.bus = "session" => x.modem_name \notin modemGone

\* The modem an export_new_modem call ran for was removed, the handler of the
\* signal registered
C13_Witness ==
    \E t \in TaskIds :
        /\ task[t].exported /\ task[t].pc = "raised"
        /\ ofono_proxy # "none" /\ PathOf(ofono_proxy) \in modemGone

\* C14: when org.ofono has lost its owner and ofono_removed has run, the
\* modem-scoped objects (service, modem manager settings, push agent) are off
\* the bus and the tracked modem state (the modem proxy, its properties, the
\* interface handles and their properties) is gone.
C14_TornDownWithOfono ==
    ofono_manager_interface = "None" =>
        /\ exports \ {ManagerObject} = {}
        /\ ofono_mms_objects = <<>> /\ ofono_mms_interfaces = <<>>
        /\ ofono_proxy = "none" /\ ofono_props = <<>>
        /\ \A i \in Ifaces : /\ Lookup(ofono_interfaces, i) = "absent"
                             /\ ofono_interface_props[i] = "absent"

\* C15: a push notification whose headers carry no Content-Location is
\* discarded: its ReceiveNotification call has returned, no fetch was made
\* for it (none succeeded, none failed, none is under way in the call or in
\* the retry task), it is not on the retry queue and nothing is published
\* for it.
C15_NoLocationDiscarded ==
    \A n \in 1..Len(notifs) :
        ~notifs[n].kind.loc =>
            /\ notifs[n].pc = "returned"
            /\ ~notifs[n].fetched /\ ~notifs[n].recvFailed /\ notifs[n].fails = 0
            /\ n \notin Range(retry_queue) /\ retry.item # n
            /\ PublishedFor(n) = {}

C15_Witness ==
    \E n \in 1..Len(notifs) : ~notifs[n].kind.loc /\ notifs[n].pc = "returned"

\* C16: whatever get_interface calls are made, the object proxy of a path is
\* acquired at most once, the interface handle of a (path, interface) pair is
\* resolved at most once, and every lookup of a pair returns what its first
\* lookup returned.
C16_ResolvedOnce ==
    /\ \A p \in CachePaths : acquired[p] <= 1
    /\ \A k \in CacheKeys : lookups[k].resolutions <= 1 /\ lookups[k].same

C16_Witness ==
    \E k \in CacheKeys :
        /\ lookups[k].calls >= 2 /\ lookups[k].resolutions = 1
        /\ lookups[k].first = Handle(k[1], k[2])
        /\ acquired[k[1]] = 1

\* C17: when resolving an interface fails the lookup returns None instead of
\* raising, and every later lookup of the pair returns None without asking
\* the proxy object again.
C17_FailureRemembered ==
    \A k \in CacheKeys :
        lookups[k].failed =>
            /\ lookups[k].first = NoneEntry /\ lookups[k].noneSince
            /\ lookups[k].resolutions = 1

C17_Witness ==
    \E k \in CacheKeys :
        lookups[k].failed /\ lookups[k].calls >= 2 /\ lookups[k].first = NoneEntry


\* ofono_mms_service.py:202-205: what GetMessages returns
GetMessages == messages
Occurrences(seq, x) == Cardinality({i \in 1..Len(seq) : seq[i] = x})

\* The tokens Delete was called for
DeletedTokens == {d.uuid : d \in deleted}

\* C18 as stated: once Delete has been called on the published message with
\* token T, GetMessages returns no entry for its path, no object is exported
\* at its path, MessageRemoved has been announced exactly once for its path,
\* and no file whose name holds T is left in the storage directory.
C18_DeleteRemovesAll ==
    \A u \in DeletedTokens :
        /\ \A i \in 1..Len(GetMessages) : GetMessages[i].path # ObjectPath(u)
        /\ \A x \in exports : x.path # ObjectPath(u)
        /\ Occurrences(removed, ObjectPath(u)) = 1
        /\ \A k \in FileKinds : ~Has(files[u], k)

\* C18 amended: the step in which Delete runs on the published message with
\* token T leaves no entry for its path in what GetMessages returns and no
\* object exported at its path, announces MessageRemoved once for its path,
\* and leaves of the files whose names hold T those whose removal failed
\* with OSError, and no other.
C18_DeleteRemovesUnlessOSError ==
    [][Len(removed') = Len(removed) + 1 =>
          \E d \in deleted' :
              /\ removed' = Append(removed, ObjectPath(d.uuid))
              /\ \A i \in 1..Len(GetMessages') : GetMessages'[i].path # ObjectPath(d.uuid)
              /\ \A x \in exports' : x.path # ObjectPath(d.uuid)
              /\ \A k \in FileKinds : Has(files'[d.uuid], k) <=> (k \in d.failed)
              /\ \A k \in d.failed : Has(files[d.uuid], k)]_vars

\* Delete ran on a published message and the removal of its payload file
\* failed: the payload is the one file of the token that is left
C18_Witness ==
    \E d \in deleted :
        LET u == d.uuid IN
        /\ d.failed = {"pdu"}
        /\ \E i \in 1..Len(published) : published[i].msg.path = ObjectPath(u)
        /\ Has(files[u], "pdu") /\ ~Has(files[u], "status")
        /\ Occurrences(removed, ObjectPath(u)) = 1
        /\ \A x \in exports : x.path # ObjectPath(u)

\* The files of a token: a status file, a headers file and the attachment
\* files counted
HasStatus(f) == f.stateLine # <<>>
Complete(f) == HasStatus(f) /\ f.headers /\ f.nAttach >= 2
Tokens == {u \in 1..Len(files) : files[u].kind # "none"}
Republished == {published'[j].msg.path : j \in (Len(published) + 1)..Len(published')}

\* Whether the entry of token u raises: while export_old_messages builds it,
\* or when export_mms_message publishes it
Raises(u, f) ==
    LET e == old_entry(u, f) IN
    \/ e.raised
    \/ /\ e.pubs # <<>>
       /\ export_mms_message(e.pubs[1].uuid, e.pubs[1].state, e.pubs[1].date,
                             e.pubs[1].sender, e.pubs[1].dr, <<>>, e.pubs[1].smil,
                             e.pubs[1].atts, mm_props.ModemNumber).raised

\* C19: a call of export_old_messages republishes a token only if it has a
\* status file, a headers file and at least two attachment files; the other
\* tokens raise nothing and do not end the scan, so that every complete
\* token is republished unless the entry of a complete token itself raises.
C19_IncompleteSkipped ==
    [][scans' # scans =>
         /\ \A u \in Tokens : ObjectPath(u) \in Republished => Complete(files[u])
         /\ Republished \subseteq {ObjectPath(u) : u \in Tokens}
         /\ \A u \in Tokens : ~Complete(files[u]) => ~Raises(u, files[u])
         /\ (\A u \in Tokens : Complete(files[u]) => ~Raises(u, files[u]))
               => \A u \in Tokens : Complete(files[u]) => ObjectPath(u) \in Republished]_vars

\* export_old_messages ran over a sent message, which has no headers file,
\* and a received one: the received one is published again, the sent one not
C19_Witness ==
    /\ run >= 1 /\ run \in scans
    /\ \E u, v \in Tokens :
          /\ ~Complete(files[u]) /\ files[u].kind = "sent"
          /\ Complete(files[v])
          /\ \E k \in 1..Len(published) :
                published[k].run < run /\ published[k].msg.path = ObjectPath(u)
          /\ \E j \in 1..Len(published) :
                /\ published[j].run = run /\ published[j].notif = 0
                /\ published[j].msg.Status = Received
                /\ published[j].msg.path = ObjectPath(v)
          /\ \A j \in 1..Len(published) :
                published[j].run = run => published[j].msg.path # ObjectPath(u)

\* C20: as long as the manager is there, a find_ofono_modems call that was
\* told of no eligible modem sleeps and asks again, however often it has
\* asked before; a call that is told of an eligible modem goes on to export
\* the first of them.
C20_RetriesUntilModem ==
    [][\A t \in TaskIds :
         /\ (task[t].pc = "modems" /\ task'[t] # task[t] /\ ofonoUp
                /\ EligibleModems(envModems) = <<>>)
               => task'[t].pc = "sleep"
         /\ (task[t].pc = "sleep" /\ task'[t] # task[t]
                /\ ofono_manager_interface # "None")
               => task'[t].pc = "modems"
         /\ (task[t].pc = "modems" /\ task'[t] # task[t] /\ ofonoUp
                /\ EligibleModems(envModems) # <<>>)
               => /\ task'[t].exported
                  /\ ofono_proxy' = Head(EligibleModems(envModems))]_vars

C20_Witness ==
    \E t \in TaskIds :
        /\ task[t].retried /\ task[t].exported
        /\ ofono_proxy \in Range(EligibleModems(envModems))

MmsContexts == {i \in 1..Len(contexts) : IsMms(contexts[i])}
FirstMms == CHOOSE i \in MmsContexts : \A j \in MmsContexts : i <= j

\* C21: with several contexts of type mms, in whatever case the type is
\* written, the first of them in enumeration order is the one
\* activate_mms_context activated, the one whose proxy
\* get_mms_context_info returned and the one whose MMSC, proxy and APN
\* set_props made the settings.
C21_OneContextForAll ==
    (cm_tracked /\ Cardinality(MmsContexts) >= 2) =>
        /\ "activate" \in connCalls => activated = contexts[FirstMms].path
        /\ "fetch" \in connCalls => fetch_proxy = contexts[FirstMms].MessageProxy
        /\ "set_props" \in connCalls =>
              /\ mm_props.CarrierMMSC = contexts[FirstMms].MessageCenter
              /\ mm_props.CarrierMMSProxy = contexts[FirstMms].MessageProxy
              /\ mm_props.MMS_APN = contexts[FirstMms].AccessPointName

QueuedIds == 1..MaxQueued

\* C22: the retry task takes the waiting notifications oldest first and puts
\* a failed one back at the tail, so that of two waiting notifications, when
\* the fetch of one fails every time and the fetch of the other succeeds at
\* some time, the other is published at some time.
C22_FailingOneStarvesNobody ==
    /\ [][(retry.pc = "get" /\ retry'.pc # "get")
            => (retry'.item = Head(retry_queue) /\ retry_queue' = Tail(retry_queue))]_vars
    /\ [][(retry.pc = "fetch" /\ retry'.pc = "sleep" /\ ~notifs'[retry.item].fetched)
            => retry_queue' = Append(retry_queue, retry.item)]_vars
    /\ \A b \in QueuedIds :
          ([](\E a \in QueuedIds \ {b} : ~notifs[a].fetched) /\ <>notifs[b].fetched)
              => <>(PublishedFor(b) # {})

\* C26: when the get-contexts call of a retry attempt fails with a bus
\* error, the retry task goes on and the notification it had taken from the
\* queue is still waiting to be attempted again.
C26_BusErrorKeepsRetrying ==
    [][(retry.pc = "ctx" /\ retry'.pc # "fetch" /\ retry' # retry)
         => /\ retry'.pc # "dead"
            /\ retry.item \in Range(retry_queue') \cup {retry'.item}]_vars

\* C27: when the body fetched for one notification cannot be processed, the
\* retry task goes on with the notifications that are still waiting.
C27_BadBodyIsLocal ==
    [][(retry.pc = "fetch" /\ retry' # retry /\ retry_queue # <<>>)
         => retry'.pc # "dead"]_vars

\* The find_ofono_modems calls that are inside the body of the function:
\* past the lock and not yet returned
InBody == {t \in TaskIds : task[t].fn = "find" /\ task[t].pc \notin {"ready", "lockq"}}

\* C23: at no time is more than one find_ofono_modems call inside the body,
\* whether the calls come from the start of the daemon, from the appearance
\* of org.ofono on the bus or from GetServices.
C23_OnePassAtATime ==
    /\ Cardinality(InBody) <= 1
    /\ \A t \in InBody : lockHolder = t

C23_Witness ==
    \E t, u \in TaskIds :
        /\ t \in InBody /\ task[u].fn = "find" /\ task[u].pc = "lockq"
        /\ task[t].org # task[u].org

ExportTasks == {t \in TaskIds : task[t].fn = "export"}

\* C24: while a find_ofono_modems call is inside its body, from the start of
\* discovery to its return, no step, a modem-added signal included, creates
\* a task that runs export_new_modem.
C24_NoExportDuringPass ==
    [][InBody # {} => ExportTasks' \subseteq ExportTasks]_vars

\* A pass that was told of no eligible modem sleeps, an eligible modem has
\* been added since, and nothing exports it
C24_Witness ==
    /\ managerSubs > 0
    /\ \E t \in InBody : task[t].pc = "sleep"
    /\ EligibleModems(envModems) # <<>>
    /\ ExportTasks = {}

\* C25: when no find_ofono_modems call is inside its body or waiting for the
\* lock, whichever way the last pass ended, modem_added_block is false.
C25_GuardClearedAfterPass ==
    (InBody = {} /\ lockQ = <<>> /\ \A t \in TaskIds : task[t].fn # "find")
        => ~modem_added_block

\* The add_ofono_interface tasks waiting for the answer of GetProperties
AwaitingProps == {i \in 1..Len(ifTasks) : ifTasks[i].op = "add" /\ ifTasks[i].pc = "props"}

\* C28: when GetProperties of an interface add_ofono_interface is adding
\* fails with a bus error, the interface stays in ofono_interfaces, its
\* snapshot in ofono_interface_props is the empty one and one more property
\* handler is registered on it; a change event that later reaches a handler
\* of an interface whose snapshot is the empty one is written into it.
C28_FailedFetchStillTracked ==
    /\ [][\A i \in AwaitingProps :
            LET f == ifTasks[i].iface
                h == Lookup(ofono_interfaces, f) IN
            (~Answered /\ ifTasks' = RemoveAt(ifTasks, i) /\ h # "absent")
                => /\ Lookup(ofono_interfaces', f) = h
                   /\ ofono_interface_props'[f] = "empty"
                   /\ ifaceSubs'[h][f] = ifaceSubs[h][f] + 1]_vars
    /\ [][\A f \in Ifaces :
            (changed' # changed /\ f \in changed' /\ ofono_interface_props[f] = "empty")
                => ofono_interface_props'[f] = "patched"]_vars

C28_Witness ==
    \E f \in Ifaces : f \in changed /\ ofono_interface_props[f] = "patched"

\* C29: a remove_ofono_interface step leaves the interface out of the maps,
\* and after the step that takes SimManager away ModemNumber has its default
\* value, after the one that takes ConnectionManager away CarrierMMSC,
\* MMS_APN and CarrierMMSProxy have theirs.
C29_RemovedInterfaceResetsSettings ==
    [][("remove" \in connCalls' /\ (sim_props' # sim_props \/ cm_tracked' # cm_tracked))
        => /\ (sim_props.present /\ ~sim_props'.present)
                => mm_props'.ModemNumber = DefaultProps.ModemNumber
           /\ (cm_tracked /\ ~cm_tracked')
                => /\ mm_props'.CarrierMMSC = DefaultProps.CarrierMMSC
                   /\ mm_props'.MMS_APN = DefaultProps.MMS_APN
                   /\ mm_props'.CarrierMMSProxy = DefaultProps.CarrierMMSProxy]_vars

\* C30: the step in which ofono_modem_removed runs for the path of the modem
\* the manager tracks leaves ofono_interfaces and ofono_interface_props
\* without any entry.
C30_RemovedModemForgotten ==
    [][(ofono_proxy # "none" /\ PathOf(ofono_proxy) \in modemGone' \ modemGone)
        => \A i \in Ifaces : /\ Lookup(ofono_interfaces', i) = "absent"
                             /\ ofono_interface_props'[i] = "absent"]_vars

\* The positions of the SMIL parts and of the other parts of a body, and the
\* src references of its SMIL part when it has exactly one
SmilPositions(b) == {i \in 1..Len(b.parts) : IsSmil(b.parts[i])}
OtherParts(b) == SelectSeq(b.parts, LAMBDA part : ~IsSmil(part))
SmilOf(b) == SmilText(b.parts[CHOOSE i \in SmilPositions(b) : TRUE])
SrcOf(b) == extract_smil_src(SmilOf(b)).list

\* C31: a fetched body with exactly one SMIL part, not blank, wherever it
\* stands among the parts, and n other parts the SMIL refers to in order,
\* coming with a sender and a To header, has one message
\* published with n attachment entries, none of the SMIL content type, the
\* i-th of them for the i-th other part with the i-th src as content-id.
C31_AttachmentsMatchSmil ==
    \A k \in 1..Len(notifs) :
        LET b == notifs[k].kind.body IN
        (/\ notifs[k].fetched
         /\ Cardinality(SmilPositions(b)) = 1 /\ SmilOf(b) # <<>>
         /\ Len(SrcOf(b)) >= Len(OtherParts(b))
         /\ notifs[k].sender # None /\ b.to # None)
        => /\ Cardinality(PublishedFor(k)) = 1
           /\ \A p \in PublishedFor(k) :
                 /\ Len(published[p].msg.Attachments) = Len(OtherParts(b))
                 /\ \A i \in 1..Len(published[p].msg.Attachments) :
                       /\ published[p].msg.Attachments[i].ctype = OtherParts(b)[i].ctype
                       /\ published[p].msg.Attachments[i].cid
                              = <<"<">> \o SrcOf(b)[i] \o <<">">>

\* The value of the state= line of a status file
StateOf(f) == Strip(SplitSecond(f.stateLine, "="))

\* C32: the lifecycle state every status file in the storage directory holds
\* is sent or received, also after MarkRead was called on the message.
C32_StateSentOrReceived ==
    \A u \in 1..Len(files) :
        files[u].kind # "none" => StateOf(files[u]) \in {Sent, Received}

\* C33: every lookup of a (path, interface) pair returned the handle resolved
\* for that path and that interface, None when the object does not have the
\* interface, whatever other pairs were looked up before.
C33_OwnEntryPerTriple ==
    \A k \in CacheKeys :
        lookups[k].calls > 0 =>
            /\ lookups[k].same
            /\ lookups[k].first = IF Implemented(k[2]) THEN Handle(k[1], k[2])
                                  ELSE NoneEntry

\* C34: the Manager object main() exported at /org/ofono/mms is on the
\* session bus in every state, also after a find_ofono_modems pass has
\* unexported the paths recorded in ofono_mms_objects.
C34_ManagerStaysExported == ManagerObject \in exports

\* A pass exported a modem and ended; the call that had waited for the lock
\* behind it has since unexported what ofono_mms_objects recorded
C34_Witness ==
    \E t, u \in TaskIds :
        /\ task[t].exported /\ task[t].pc = "raised"
        /\ task[u].fn = "find" /\ task[u].waited = t
        /\ task[u].pc \notin {"ready", "lockq"}
        /\ ManagerObject \in exports

\* The force_activate_context loops that run (main.py:262-269)
RunningLoops == {i \in 1..Len(ifTasks) : ifTasks[i].op = "force_activate_context"}

\* C35: at any time at most one force_activate_context retry loop is
\* running, whatever the number of Active = false events received, of MMS
\* contexts subscribed and of export passes performed.
C35_OneActivationLoop == Cardinality(RunningLoops) <= 1

\* export_new_modem ran for a modem, and the MMS context of a listed modem
\* has reported Active = false since
C35_Witness ==
    /\ ~ctxActive
    /\ \E t \in TaskIds : task[t].exported /\ task[t].pc = "raised"
    /\ RunningLoops = {}

\* oFono lists an eligible modem
ModemListed == ofonoUp /\ EligibleModems(envModems) # <<>>

OtherModem(m) == IF m = "ril_0" THEN "ril_1" ELSE "ril_0"

\* What the daemon holds of modem o is after the step what it was before:
\* the interface handles got from o with their property snapshots, the
\* Interfaces list when o is the modem exported last, and the service
\* objects recorded or exported with the path of o
KeptFor(o) ==
    /\ \A i \in Ifaces :
          /\ Lookup(ofono_interfaces, i) = o =>
                /\ Lookup(ofono_interfaces', i) = o
                /\ ofono_interface_props'[i] = ofono_interface_props[i]
          /\ Lookup(ofono_interfaces', i) = o => Lookup(ofono_interfaces, i) = o
    /\ ofono_proxy = o => ofono_props' = ofono_props
    /\ {x \in exports' : x.modem_name = PathOf(o)} = {x \in exports : x.modem_name = PathOf(o)}
    /\ SelectSeq(ofono_mms_interfaces', LAMBDA x : x.modem_name = PathOf(o))
          = SelectSeq(ofono_mms_interfaces, LAMBDA x : x.modem_name = PathOf(o))

\* C37: with two eligible modems, an event of one modem (a change of its
\* Interfaces, a property change of one of its interfaces, its removal)
\* never adds, removes or overwrites the tracked interfaces, the property
\* snapshots or the service objects of the other modem.
C37_EventsOfOneModemOnly ==
    [][\A m \in {"ril_0", "ril_1"} :
          ({"ril_0", "ril_1"} \subseteq Range(envModems)
             /\ \/ ModemRemoved(m)
                \/ \E L \in IfaceLists : InterfacesChanged(m, L)
                \/ \E f \in Ifaces : InterfacePropertyChanged(m, f))
          => KeptFor(OtherModem(m))]_vars

\* C38: across the discovery passes and modem-added exports of one daemon
\* run no message object path is published a second time: a stored message
\* is exported and announced with MessageAdded at most once in a run.
C38_RepublishedAtMostOnce ==
    \A p, q \in 1..Len(published) :
        (p < q /\ published[p].run = published[q].run)
            => published[p].msg.path # published[q].msg.path

\* The storage directory holds a complete message, and two export_new_modem
\* calls of the run have ended
C38_Witness ==
    /\ \E u \in 1..Len(files) : Complete(files[u]) /\ ~Raises(u, files[u])
    /\ \E t, u \in TaskIds :
          /\ t # u
          /\ task[t].exported /\ task[t].pc = "raised"
          /\ task[u].exported /\ task[u].pc = "raised"

\* C39: at most one property-change handler is registered per tracked
\* interface at any time, across the export passes and the Interfaces
\* change events, two Interfaces events that arrive before the add tasks of
\* the first have run included.
C39_OneHandlerPerInterface ==
    \A m \in ModemIds, f \in Ifaces : ifaceSubs[m][f] <= 1

\* C40: no modem whose path lacks the prefix /ril_ is ever exported, whether
\* a discovery pass or a modem-added signal reported it: no
\* export_new_modem call has run for such a modem.
C40_OnlyRilModemsExported ==
    /\ ofono_proxy # "none" => Eligible(ofono_proxy)
    /\ \A t \in TaskIds : task[t].exported => Eligible(task[t].modem)

=============================================================================
